---------------------------- MODULE Spec2Model ----------------------------
(***************************************************************************)
(* Verification model of the diff-aware issue resolution engine:           *)
(*   - static classification of linter findings                           *)
(*       (agents/syntax/core_rules.py, agents/syntax/issue_filter.py)      *)
(*   - the review line resolver and inline comment conversion              *)
(*       (publish/github_publisher.py)                                     *)
(*   - the result aggregation pipeline (agents/aggregator.py)              *)
(*   - the unified diff parser (src/agents/preprocessing/diff_parser.py)   *)
(* Each component has its own specification (SpecClassify, SpecPublish,    *)
(* SpecAggregate, SpecParse); the variables of the other components stay   *)
(* at their idle values.                                                   *)
(***************************************************************************)
EXTENDS Integers, Sequences, FiniteSets, TLC

VARIABLES
  \* static classification (IssueFilter.static_filter)
  sf_issues,          \* the list of CodeIssue objects handed to static_filter
  sf_include_style,   \* the include_style argument
  sf_filtered,        \* the returned list
  sf_pc,              \* "start" | "done"
  \* inline comment conversion (_convert_issue_to_inline_comment)
  diff_ir,            \* the diff IR: a sequence of file entries
  issue_obj,          \* the issue with its _meta attached
  resolved,           \* the dict a direct call of _resolve_review_line returns
  inline_comments,    \* the list _convert_issue_to_inline_comment returns
  pub_pc,             \* "start" | "resolved" | "done"
  \* publication (GitHubPublisher.publish_comprehensive_report)
  rp_issues,          \* the issues of final_report, each with its _meta attached
  rp_pr_files,        \* self._get_pr_files(repo_full_name, pr_number)
  rp_comments,        \* the inline comments handed to create_review
  rp_pc,              \* "start" | "done"
  \* aggregation (ResultAggregator.aggregate)
  results,            \* the four AgentResults: structure, memory, logic, security
  include_style,      \* ResultAggregator.include_style
  parsed_diff,        \* the ParsedDiff handed to aggregate
  all_issues,         \* local all_issues
  bugs,               \* local bugs
  line_comments,      \* AnalysisReport.line_comments
  off_diff_bugs,      \* the bugs outside the diff, routed to the summary appendix
  appendix,           \* the lines appended to pr_summary.ai_summary
  agg_pc,             \* "waiting" | "start" | "done" | "raised"
  detectors,          \* run_review: the four detector tasks handed to asyncio.gather
  \* diff parser (DiffParser.parse_unified_diff)
  files,              \* local files: a list of references into file_heap
  file_heap,          \* the FileDiff objects created so far
  hunk_heap,          \* the DiffHunk objects created so far
  current_file,       \* reference to the current FileDiff, 0 for None
  current_hunk,       \* reference to the current DiffHunk, 0 for None
  new_line_num,       \* the running new-line counter
  line_no,            \* local i: number of lines consumed
  parse_pc,           \* "loop" | "done" | "returned"
  hunk_file,          \* history: for each DiffHunk, the file that was current
  hunk_read,          \* history: for each DiffHunk, the lines read as its body
                      \* when its header was read (0 for None)
  files_changed,      \* parse_pr_folder: the content of files_changed.json, 0 if absent
  parsed,             \* parse_pr_folder: the ParsedDiff returned, 0 before the return
  \* score filter (IssueScoringFilter.score_and_filter)
  sc_issues,          \* the Bug list handed to score_and_filter
  sc_config,          \* self.config, a ScoringConfig
  sc_i,               \* the loop variable i: where the next batch starts
  all_scores,         \* local all_scores
  batch_log,          \* history: the outcome of each oracle call, in batch order
  sc_filtered,        \* the returned list
  sc_pc               \* "start" | "scoring" | "done"

sfVars  == <<sf_issues, sf_include_style, sf_filtered, sf_pc>>
rpVars == <<rp_issues, rp_pr_files, rp_comments, rp_pc>>
pubVars == <<diff_ir, issue_obj, resolved, inline_comments, pub_pc, rpVars>>
aggVars == <<results, include_style, parsed_diff, all_issues, bugs, line_comments,
             off_diff_bugs, appendix, agg_pc, detectors>>
prVars == <<files_changed, parsed>>
parseVars == <<files, file_heap, hunk_heap, current_file, current_hunk, new_line_num,
               line_no, parse_pc, hunk_file, hunk_read, prVars>>
scVars == <<sc_issues, sc_config, sc_i, all_scores, batch_log, sc_filtered, sc_pc>>
vars == <<sfVars, pubVars, aggVars, parseVars, scVars>>

\* The idle values a component's variables hold in the other specifications.
SfIdle ==
  /\ sf_issues = <<>> /\ sf_include_style = FALSE /\ sf_filtered = <<>> /\ sf_pc = "idle"
RpIdle == rp_issues = <<>> /\ rp_pr_files = {} /\ rp_comments = <<>> /\ rp_pc = "idle"
PubIdle ==
  /\ diff_ir = <<>> /\ issue_obj = <<>> /\ resolved = <<>> /\ inline_comments = <<>>
  /\ pub_pc = "idle"
  /\ RpIdle
AggIdle ==
  /\ results = <<>> /\ include_style = FALSE /\ parsed_diff = <<>> /\ all_issues = <<>>
  /\ bugs = <<>> /\ line_comments = <<>> /\ off_diff_bugs = <<>> /\ appendix = <<>>
  /\ agg_pc = "idle" /\ detectors = <<>>
ParseIdle ==
  /\ files = <<>> /\ file_heap = <<>> /\ hunk_heap = <<>> /\ current_file = 0
  /\ current_hunk = 0 /\ new_line_num = 0 /\ line_no = 0 /\ parse_pc = "idle"
  /\ hunk_file = <<>> /\ hunk_read = <<>> /\ files_changed = 0 /\ parsed = 0
ScIdle ==
  /\ sc_issues = <<>> /\ sc_config = <<>> /\ sc_i = 0 /\ all_scores = <<>>
  /\ batch_log = <<>> /\ sc_filtered = <<>> /\ sc_pc = "idle"

-----------------------------------------------------------------------------
(* Strings are sequences of one-character strings, so that str.startswith,  *)
(* str.lower and the substring test `kw in s` are computed, not assumed.    *)

UpperChars ==
  <<"A","B","C","D","E","F","G","H","I","J","K","L","M",
    "N","O","P","Q","R","S","T","U","V","W","X","Y","Z">>
LowerChars ==
  <<"a","b","c","d","e","f","g","h","i","j","k","l","m",
    "n","o","p","q","r","s","t","u","v","w","x","y","z">>

lower_char(c) ==
  IF \E k \in DOMAIN UpperChars : UpperChars[k] = c
  THEN LowerChars[CHOOSE k \in DOMAIN UpperChars : UpperChars[k] = c]
  ELSE c

\* str.lower()
lower(s) == [k \in 1..Len(s) |-> lower_char(s[k])]

\* str.startswith(prefix)
startswith(s, prefix) ==
  /\ Len(prefix) <= Len(s)
  /\ SubSeq(s, 1, Len(prefix)) = prefix

\* `kw in s` for strings
contains(s, kw) ==
  \E k \in 0..(Len(s) - Len(kw)) : SubSeq(s, k + 1, k + Len(kw)) = kw

-----------------------------------------------------------------------------
(* agents/syntax/core_rules.py: the rule tables.  A core-rule table keeps   *)
(* the order of the dict's categories.                                      *)

PYTHON_CORE_RULES ==
  << [category |-> "syntax", rules |-> <<
        <<"E","9">>, <<"F","8","2","1">>, <<"F","8","2","2">>, <<"F","8","2","3">>,
        <<"F","8","3","1">>, <<"F","6","3","2">>, <<"F","6","3","3">> >>],
     [category |-> "memory", rules |-> <<
        <<"S","I","M","1","1","5">>, <<"B","0","0","6">>, <<"B","0","0","8">>,
        <<"P","L","W","0","6","0","3">>, <<"P","L","W","0","6","0","2">>, <<"R","1","7","3","2">>,
        <<"W","1","5","1","4">>, <<"R","U","F","0","1","3">> >>],
     [category |-> "security", rules |-> <<
        <<"S">> >>] >>

PYTHON_IGNORE_RULES ==
  <<
    <<"E","1">>, <<"E","2">>, <<"E","3">>, <<"E","4">>, <<"E","5">>, <<"E","7">>, <<"W">>,
    <<"F","4","0","1">>, <<"F","8","4","1">>, <<"C","9">>, <<"N">>, <<"D">>, <<"A","N","N">>,
    <<"Q">>, <<"C","O","M">>, <<"I","S","C">>, <<"T","2","0">> >>

TYPESCRIPT_CORE_RULES ==
  << [category |-> "syntax", rules |-> <<
        <<"n","o","-","u","n","d","e","f">>,
        <<"n","o","-","u","n","r","e","a","c","h","a","b","l","e">>,
        <<"n","o","-","d","u","p","e","-","k","e","y","s">>,
        <<"n","o","-","d","u","p","e","-","a","r","g","s">>,
        <<"n","o","-","f","u","n","c","-","a","s","s","i","g","n">>,
        <<"n","o","-","i","m","p","o","r","t","-","a","s","s","i","g","n">>,
        <<"n","o","-","c","o","n","s","t","-","a","s","s","i","g","n">>,
        <<"n","o","-","c","l","a","s","s","-","a","s","s","i","g","n">>,
        <<"v","a","l","i","d","-","t","y","p","e","o","f">>,
        <<"n","o","-","o","b","j","-","c","a","l","l","s">>,
        <<"n","o","-","i","n","v","a","l","i","d","-","r","e","g","e","x","p">>,
        <<"n","o","-","u","n","e","x","p","e","c","t","e","d","-","m","u","l","t","i","l","i","n","e">>,
        <<"@","t","y","p","e","s","c","r","i","p","t","-","e","s","l","i","n","t","/","n","o","-","m","i","s","u","s","e","d","-","p","r","o","m","i","s","e","s">> >>],
     [category |-> "memory", rules |-> <<
        <<"r","e","a","c","t","-","h","o","o","k","s","/","e","x","h","a","u","s","t","i","v","e","-","d","e","p","s">>,
        <<"n","o","-","a","s","y","n","c","-","p","r","o","m","i","s","e","-","e","x","e","c","u","t","o","r">>,
        <<"r","e","q","u","i","r","e","-","a","w","a","i","t">>,
        <<"n","o","-","r","e","t","u","r","n","-","a","w","a","i","t">>,
        <<"p","r","e","f","e","r","-","p","r","o","m","i","s","e","-","r","e","j","e","c","t","-","e","r","r","o","r","s">>,
        <<"n","o","-","f","l","o","a","t","i","n","g","-","p","r","o","m","i","s","e","s">>,
        <<"@","t","y","p","e","s","c","r","i","p","t","-","e","s","l","i","n","t","/","n","o","-","f","l","o","a","t","i","n","g","-","p","r","o","m","i","s","e","s">> >>],
     [category |-> "security", rules |-> <<
        <<"n","o","-","e","v","a","l">>,
        <<"n","o","-","i","m","p","l","i","e","d","-","e","v","a","l">>,
        <<"n","o","-","n","e","w","-","f","u","n","c">>,
        <<"n","o","-","s","c","r","i","p","t","-","u","r","l">>,
        <<"s","e","c","u","r","i","t","y","/","d","e","t","e","c","t","-","e","v","a","l","-","w","i","t","h","-","e","x","p","r","e","s","s","i","o","n">>,
        <<"s","e","c","u","r","i","t","y","/","d","e","t","e","c","t","-","n","o","n","-","l","i","t","e","r","a","l","-","r","e","g","e","x","p">>,
        <<"s","e","c","u","r","i","t","y","/","d","e","t","e","c","t","-","n","o","n","-","l","i","t","e","r","a","l","-","r","e","q","u","i","r","e">>,
        <<"s","e","c","u","r","i","t","y","/","d","e","t","e","c","t","-","p","o","s","s","i","b","l","e","-","t","i","m","i","n","g","-","a","t","t","a","c","k","s">> >>] >>

TYPESCRIPT_IGNORE_RULES ==
  <<
    <<"n","o","-","u","n","u","s","e","d","-","v","a","r","s">>,
    <<"@","t","y","p","e","s","c","r","i","p","t","-","e","s","l","i","n","t","/","n","o","-","u","n","u","s","e","d","-","v","a","r","s">>,
    <<"s","e","m","i">>, <<"q","u","o","t","e","s">>, <<"i","n","d","e","n","t">>,
    <<"c","o","m","m","a","-","d","a","n","g","l","e">>,
    <<"n","o","-","t","r","a","i","l","i","n","g","-","s","p","a","c","e","s">>,
    <<"e","o","l","-","l","a","s","t">>, <<"m","a","x","-","l","e","n">>,
    <<"n","o","-","m","u","l","t","i","p","l","e","-","e","m","p","t","y","-","l","i","n","e","s">>,
    <<"o","b","j","e","c","t","-","c","u","r","l","y","-","s","p","a","c","i","n","g">>,
    <<"a","r","r","a","y","-","b","r","a","c","k","e","t","-","s","p","a","c","i","n","g">>,
    <<"s","p","a","c","e","-","b","e","f","o","r","e","-","f","u","n","c","t","i","o","n","-","p","a","r","e","n">>,
    <<"p","r","e","t","t","i","e","r","/","p","r","e","t","t","i","e","r">>,
    <<"@","t","y","p","e","s","c","r","i","p","t","-","e","s","l","i","n","t","/","e","x","p","l","i","c","i","t","-","f","u","n","c","t","i","o","n","-","r","e","t","u","r","n","-","t","y","p","e">>,
    <<"@","t","y","p","e","s","c","r","i","p","t","-","e","s","l","i","n","t","/","e","x","p","l","i","c","i","t","-","m","o","d","u","l","e","-","b","o","u","n","d","a","r","y","-","t","y","p","e","s">> >>

GO_CORE_RULES ==
  << [category |-> "syntax", rules |-> <<
        <<"g","o","v","e","t">>, <<"t","y","p","e","c","h","e","c","k">>,
        <<"s","t","a","t","i","c","c","h","e","c","k">>,
        <<"i","n","e","f","f","a","s","s","i","g","n">> >>],
     [category |-> "memory", rules |-> <<
        <<"b","o","d","y","c","l","o","s","e">>,
        <<"s","q","l","c","l","o","s","e","c","h","e","c","k">>,
        <<"r","o","w","s","e","r","r","c","h","e","c","k">>,
        <<"c","o","n","t","e","x","t","c","h","e","c","k">>, <<"n","o","c","t","x">>,
        <<"u","n","p","a","r","a","m">> >>],
     [category |-> "security", rules |-> <<
        <<"g","o","s","e","c">> >>] >>

GO_IGNORE_RULES ==
  <<
    <<"g","o","f","m","t">>, <<"g","o","i","m","p","o","r","t","s">>,
    <<"g","o","f","u","m","p","t">>, <<"g","o","c","o","n","s","t">>,
    <<"g","o","c","r","i","t","i","c">>, <<"g","o","d","o","t">>, <<"g","o","d","o","x">>,
    <<"g","o","c","y","c","l","o">>, <<"g","o","c","o","g","n","i","t">>, <<"l","l","l">>,
    <<"w","s","l">>, <<"n","l","r","e","t","u","r","n">>,
    <<"w","r","a","p","c","h","e","c","k">>, <<"v","a","r","n","a","m","e","l","e","n">>,
    <<"n","o","n","a","m","e","d","r","e","t","u","r","n","s">> >>

JAVA_CORE_RULES ==
  << [category |-> "syntax", rules |-> <<
        <<"c","o","m","p","i","l","e","r">>,
        <<"U","n","u","s","e","d","L","o","c","a","l","V","a","r","i","a","b","l","e">> >>],
     [category |-> "memory", rules |-> <<
        <<"D","M","I">>, <<"O","B","L">>,
        <<"O","S","_","O","P","E","N","_","S","T","R","E","A","M">>,
        <<"O","D","R","_","O","P","E","N","_","D","A","T","A","B","A","S","E","_","R","E","S","O","U","R","C","E">>,
        <<"S","B","S","C","_","U","S","E","_","S","T","R","I","N","G","B","U","F","F","E","R","_","C","O","N","C","A","T","E","N","A","T","I","O","N">>,
        <<"W","M","I","_","W","R","O","N","G","_","M","A","P","_","I","T","E","R","A","T","O","R">> >>],
     [category |-> "security", rules |-> <<
        <<"S","Q","L">>, <<"X","S","S">>,
        <<"P","A","T","H","_","T","R","A","V","E","R","S","A","L">>,
        <<"C","O","M","M","A","N","D","_","I","N","J","E","C","T","I","O","N">>,
        <<"L","D","A","P","_","I","N","J","E","C","T","I","O","N">>,
        <<"X","P","A","T","H","_","I","N","J","E","C","T","I","O","N">>, <<"X","X","E">>,
        <<"S","S","R","F">> >>] >>

JAVA_IGNORE_RULES ==
  <<
    <<"J","a","v","a","d","o","c">>, <<"L","i","n","e","L","e","n","g","t","h">>,
    <<"I","n","d","e","n","t","a","t","i","o","n">>,
    <<"W","h","i","t","e","s","p","a","c","e","A","r","o","u","n","d">>,
    <<"W","h","i","t","e","s","p","a","c","e","A","f","t","e","r">>,
    <<"N","o","W","h","i","t","e","s","p","a","c","e","B","e","f","o","r","e">>,
    <<"E","m","p","t","y","L","i","n","e","S","e","p","a","r","a","t","o","r">>,
    <<"N","e","e","d","B","r","a","c","e","s">>, <<"L","e","f","t","C","u","r","l","y">>,
    <<"R","i","g","h","t","C","u","r","l","y">>, <<"M","e","t","h","o","d","N","a","m","e">>,
    <<"C","o","n","s","t","a","n","t","N","a","m","e">>,
    <<"L","o","c","a","l","V","a","r","i","a","b","l","e","N","a","m","e">>,
    <<"M","e","m","b","e","r","N","a","m","e">>,
    <<"P","a","r","a","m","e","t","e","r","N","a","m","e">>,
    <<"T","y","p","e","N","a","m","e">>, <<"P","a","c","k","a","g","e","N","a","m","e">>,
    <<"I","m","p","o","r","t","O","r","d","e","r">>,
    <<"A","v","o","i","d","S","t","a","r","I","m","p","o","r","t">>,
    <<"U","n","u","s","e","d","I","m","p","o","r","t","s">> >>

RUBY_CORE_RULES ==
  << [category |-> "syntax", rules |-> <<
        <<"L","i","n","t","/","S","y","n","t","a","x">>, <<"L","i","n","t","/","V","o","i","d">>,
        <<"L","i","n","t","/","U","n","r","e","a","c","h","a","b","l","e","C","o","d","e">>,
        <<"L","i","n","t","/","D","u","p","l","i","c","a","t","e","M","e","t","h","o","d","s">>,
        <<"L","i","n","t","/","C","i","r","c","u","l","a","r","A","r","g","u","m","e","n","t","R","e","f","e","r","e","n","c","e">>,
        <<"L","i","n","t","/","P","a","r","e","n","t","h","e","s","e","s","A","s","G","r","o","u","p","e","d","E","x","p","r","e","s","s","i","o","n">> >>],
     [category |-> "memory", rules |-> <<
        <<"L","i","n","t","/","U","s","e","l","e","s","s","A","s","s","i","g","n","m","e","n","t">>,
        <<"L","i","n","t","/","S","u","p","p","r","e","s","s","e","d","E","x","c","e","p","t","i","o","n">>,
        <<"L","i","n","t","/","R","e","s","c","u","e","E","x","c","e","p","t","i","o","n">>,
        <<"L","i","n","t","/","E","n","s","u","r","e","R","e","t","u","r","n">>,
        <<"L","i","n","t","/","F","l","o","a","t","O","u","t","O","f","R","a","n","g","e">> >>],
     [category |-> "security", rules |-> <<
        <<"S","e","c","u","r","i","t","y">>, <<"L","i","n","t","/","E","v","a","l">> >>] >>

RUBY_IGNORE_RULES ==
  <<
    <<"S","t","y","l","e","/">>, <<"L","a","y","o","u","t","/">>,
    <<"M","e","t","r","i","c","s","/">>, <<"N","a","m","i","n","g","/">> >>

security_keywords ==
  <<
    <<"i","n","j","e","c","t","i","o","n">>, <<"x","s","s">>, <<"c","s","r","f">>,
    <<"a","u","t","h">>, <<"p","a","s","s","w","o","r","d">>, <<"s","e","c","r","e","t">>,
    <<"c","r","e","d","e","n","t","i","a","l">>,
    <<"v","u","l","n","e","r","a","b","i","l","i","t","y">>, <<"u","n","s","a","f","e">>,
    <<"i","n","s","e","c","u","r","e">>, <<"s","q","l">> >>

memory_keywords ==
  <<
    <<"l","e","a","k">>, <<"r","e","s","o","u","r","c","e">>, <<"c","l","o","s","e">>,
    <<"d","i","s","p","o","s","e">>, <<"r","e","l","e","a","s","e">>,
    <<"m","e","m","o","r","y">>, <<"s","t","r","e","a","m">>,
    <<"c","o","n","n","e","c","t","i","o","n">>, <<"f","i","l","e">>,
    <<"h","a","n","d","l","e">>, <<"b","u","f","f","e","r">> >>

syntax_keywords ==
  <<
    <<"u","n","d","e","f","i","n","e","d">>, <<"u","n","d","e","c","l","a","r","e","d">>,
    <<"s","y","n","t","a","x">>, <<"p","a","r","s","e">>, <<"t","y","p","e">>,
    <<"e","r","r","o","r">>, <<"i","n","v","a","l","i","d">>, <<"i","l","l","e","g","a","l">>,
    <<"u","n","r","e","a","c","h","a","b","l","e">>, <<"d","e","a","d","c","o","d","e">> >>
LangPython     == <<"p","y","t","h","o","n">>
LangTypescript == <<"t","y","p","e","s","c","r","i","p","t">>
LangJavascript == <<"j","a","v","a","s","c","r","i","p","t">>
LangGo         == <<"g","o">>
LangJava       == <<"j","a","v","a">>
LangRuby       == <<"r","u","b","y">>
LangUnknown    == <<"u","n","k","n","o","w","n">>

\* CORE_RULES.get(language, {})
CORE_RULES_get(language) ==
  CASE language = LangPython     -> PYTHON_CORE_RULES
    [] language = LangTypescript -> TYPESCRIPT_CORE_RULES
    [] language = LangJavascript -> TYPESCRIPT_CORE_RULES
    [] language = LangGo         -> GO_CORE_RULES
    [] language = LangJava       -> JAVA_CORE_RULES
    [] language = LangRuby       -> RUBY_CORE_RULES
    [] OTHER                     -> <<>>

\* IGNORE_RULES.get(language, [])
IGNORE_RULES_get(language) ==
  CASE language = LangPython     -> PYTHON_IGNORE_RULES
    [] language = LangTypescript -> TYPESCRIPT_IGNORE_RULES
    [] language = LangJavascript -> TYPESCRIPT_IGNORE_RULES
    [] language = LangGo         -> GO_IGNORE_RULES
    [] language = LangJava       -> JAVA_IGNORE_RULES
    [] language = LangRuby       -> RUBY_IGNORE_RULES
    [] OTHER                     -> <<>>

is_core_rule(rule, language) ==
  LET lang_rules == CORE_RULES_get(language)
  IN  \E c \in DOMAIN lang_rules : \E k \in DOMAIN lang_rules[c].rules :
        startswith(rule, lang_rules[c].rules[k]) \/ rule = lang_rules[c].rules[k]

is_ignored_rule(rule, language) ==
  LET ignore_list == IGNORE_RULES_get(language)
  IN  \E k \in DOMAIN ignore_list :
        startswith(rule, ignore_list[k]) \/ rule = ignore_list[k]

\* The first category, in the table's order, one of whose rules matches.
get_rule_category(rule, language) ==
  LET lang_rules == CORE_RULES_get(language)
      hits == {c \in DOMAIN lang_rules : \E k \in DOMAIN lang_rules[c].rules :
                 startswith(rule, lang_rules[c].rules[k]) \/ rule = lang_rules[c].rules[k]}
  IN  IF hits = {} THEN "style"
      ELSE lang_rules[CHOOSE c \in hits : \A d \in hits : c <= d].category

SevError == <<"e","r","r","o","r">>

\* A variant of should_keep_issue that drops the rules it does not know.
should_keep_issue_DropUnknown(rule, language, severity) ==
  IF is_ignored_rule(rule, language) THEN [keep |-> FALSE, category |-> "style"]
  ELSE IF is_core_rule(rule, language)
       THEN [keep |-> TRUE, category |-> get_rule_category(rule, language)]
  ELSE IF lower(severity) = SevError THEN [keep |-> TRUE, category |-> "unknown"]
  ELSE [keep |-> FALSE, category |-> "unknown"]

should_keep_issue(rule, language, severity) ==
  IF is_ignored_rule(rule, language) THEN [keep |-> FALSE, category |-> "style"]
  ELSE IF is_core_rule(rule, language)
       THEN [keep |-> TRUE, category |-> get_rule_category(rule, language)]
  ELSE IF lower(severity) = SevError THEN [keep |-> TRUE, category |-> "unknown"]
  ELSE [keep |-> TRUE, category |-> "unknown"]

any_keyword(keywords, rule_lower, message_lower) ==
  \E k \in DOMAIN keywords :
    contains(rule_lower, keywords[k]) \/ contains(message_lower, keywords[k])

classify_unknown_issue(rule, language, message) ==
  LET rule_lower == lower(rule)
      message_lower == lower(message)
  IN  IF any_keyword(security_keywords, rule_lower, message_lower) THEN "security"
      ELSE IF any_keyword(memory_keywords, rule_lower, message_lower) THEN "memory"
      ELSE IF any_keyword(syntax_keywords, rule_lower, message_lower) THEN "syntax"
      ELSE "unknown"

-----------------------------------------------------------------------------
(* agents/syntax/issue_filter.py: IssueFilter.static_filter                 *)

\* language = issue.language.lower() if issue.language else "unknown"
issue_language(issue) ==
  IF issue.language # <<>> THEN lower(issue.language) ELSE LangUnknown

\* The category static_filter computes for an issue it does not drop at once.
issue_category(issue) ==
  LET language == issue_language(issue)
      decision == should_keep_issue(issue.rule, language, issue.severity)
      guessed  == classify_unknown_issue(issue.rule, language, issue.message)
  IN  IF decision.category = "unknown" /\ guessed # "unknown" THEN guessed
      ELSE decision.category

\* A variant of static_filter_step in which include_style keeps an ignored rule.
static_filter_step_StyleFlag(issue, incl_style) ==
  LET decision == should_keep_issue(issue.rule, issue_language(issue), issue.severity)
  IN  IF ~decision.keep
        THEN [issue |-> [issue EXCEPT !.category = decision.category], kept |-> incl_style]
      ELSE LET category == issue_category(issue)
           IN  [issue |-> [issue EXCEPT !.category = category],
                kept  |-> (category # "style" \/ incl_style)]

\* The loop body of static_filter for one issue: the issue as the loop leaves it
\* (issue.category is assigned in place) and whether it is appended to filtered.
static_filter_step(issue, incl_style) ==
  LET decision == should_keep_issue(issue.rule, issue_language(issue), issue.severity)
  IN  IF ~decision.keep THEN [issue |-> issue, kept |-> FALSE]
      ELSE LET category == issue_category(issue)
           IN  [issue |-> [issue EXCEPT !.category = category],
                kept  |-> (category # "style" \/ incl_style)]

\* The list objects after the call: the issues the loop went through.
RECURSIVE static_filter_visit(_, _)
static_filter_visit(issues, incl_style) ==
  IF issues = <<>> THEN <<>>
  ELSE <<static_filter_step(Head(issues), incl_style).issue>>
         \o static_filter_visit(Tail(issues), incl_style)

\* The returned list.
RECURSIVE static_filter(_, _)
static_filter(issues, incl_style) ==
  IF issues = <<>> THEN <<>>
  ELSE LET step == static_filter_step(Head(issues), incl_style)
       IN  (IF step.kept THEN <<step.issue>> ELSE <<>>)
             \o static_filter(Tail(issues), incl_style)

-----------------------------------------------------------------------------
(* Specification of static classification: the filter is applied to a list  *)
(* holding one linter finding drawn from the pools below.                   *)

TableCoreRules(table) ==
  UNION {{table[c].rules[k] : k \in DOMAIN table[c].rules} : c \in DOMAIN table}
TableIgnoreRules(list) == {list[k] : k \in DOMAIN list}

CoreRuleIds ==
  TableCoreRules(PYTHON_CORE_RULES) \cup TableCoreRules(TYPESCRIPT_CORE_RULES)
    \cup TableCoreRules(GO_CORE_RULES) \cup TableCoreRules(JAVA_CORE_RULES)
    \cup TableCoreRules(RUBY_CORE_RULES)
IgnorePatterns ==
  TableIgnoreRules(PYTHON_IGNORE_RULES) \cup TableIgnoreRules(TYPESCRIPT_IGNORE_RULES)
    \cup TableIgnoreRules(GO_IGNORE_RULES) \cup TableIgnoreRules(JAVA_IGNORE_RULES)
    \cup TableIgnoreRules(RUBY_IGNORE_RULES)
\* Rule ids outside the tables: extensions of a pattern, unknown rules, a rule
\* a keyword bucket recognises.
ExtraRuleIds ==
  { <<"E","5","0","1">>, <<"S","1","0","1">>, <<"X","9","9","9">>,
    <<"S","t","y","l","e","/","X">>, <<"s","q","l","-","c","h","e","c","k">>,
    <<"e","r","r","c","h","e","c","k">> }
RulePool == CoreRuleIds \cup IgnorePatterns \cup ExtraRuleIds

SevCritical == <<"c","r","i","t","i","c","a","l">>
SevWarning  == <<"w","a","r","n","i","n","g">>
SeverityPool == {SevError, <<"E","R","R","O","R">>, SevCritical, SevWarning}
LanguagePool ==
  { LangPython, <<"P","y","t","h","o","n">>, LangTypescript, LangJavascript, LangGo,
    LangJava, LangRuby, <<"r","u","s","t">>, <<>> }
MessagePool == { <<"b","a","d">>, <<"M","e","m","o","r","y"," ","l","e","a","k">> }

CodeIssuePool ==
  [file : {"a.py"}, line : {1}, rule : RulePool, message : MessagePool,
   severity : SeverityPool, category : {"unknown"}, language : LanguagePool]

InitClassify ==
  /\ sf_issues \in {<<issue>> : issue \in CodeIssuePool}
  /\ sf_include_style \in BOOLEAN
  /\ sf_filtered = <<>>
  /\ sf_pc = "start"
  /\ PubIdle /\ AggIdle /\ ParseIdle /\ ScIdle

\* filter_issues_static / IssueFilter.static_filter(issues, include_style)
StaticFilter ==
  /\ sf_pc = "start"
  /\ sf_filtered' = static_filter(sf_issues, sf_include_style)
  /\ sf_issues' = static_filter_visit(sf_issues, sf_include_style)
  /\ sf_pc' = "done"
  /\ UNCHANGED <<sf_include_style, pubVars, aggVars, parseVars, scVars>>

NextClassify == StaticFilter

SpecClassify == InitClassify /\ [][NextClassify]_vars

\* The identity of a CodeIssue apart from the category the filter assigns.
SameFinding(a, b) ==
  /\ a.file = b.file /\ a.line = b.line /\ a.rule = b.rule
  /\ a.message = b.message /\ a.severity = b.severity /\ a.language = b.language

InFiltered(issue) == \E k \in DOMAIN sf_filtered : SameFinding(sf_filtered[k], issue)

ErrorOrCritical(issue) == lower(issue.severity) \in {SevError, SevCritical}

\* C1: every finding of severity error/critical whose rule matches no ignore-list
\* pattern of its language is kept by static classification, for either value of
\* include_style and whatever its rule id, message or language.
C1_CriticalKept ==
  sf_pc = "done" =>
    \A k \in DOMAIN sf_issues :
      (ErrorOrCritical(sf_issues[k])
         /\ ~is_ignored_rule(sf_issues[k].rule, issue_language(sf_issues[k])))
        => InFiltered(sf_issues[k])

\* A critical finding with a rule no table knows went through the filter with
\* include_style off and is in the returned list.
C1_Witness ==
  /\ sf_pc = "done"
  /\ ~sf_include_style
  /\ \E k \in DOMAIN sf_issues :
       /\ sf_issues[k].severity = SevCritical
       /\ sf_issues[k].rule = <<"X","9","9","9">>
       /\ sf_issues[k].language = LangPython
       /\ sf_issues[k].category = "unknown"
       /\ InFiltered(sf_issues[k])


-----------------------------------------------------------------------------
(* publish/github_publisher.py: the review line resolver.                   *)
(* Line numbers are positive; None (an absent line number, an absent dict   *)
(* key, an unresolved search) is written 0.  A path is the sequence of its  *)
(* "/"-separated components.  A hunk_id that is                             *)
(* None is written "", a file_path that is None or empty <<>>.               *)

None == 0

\* The default of the search_radius parameter.
search_radius == 5

\* All line entries of a file's hunks, in order.
RECURSIVE hunk_lines(_)
hunk_lines(hunks) ==
  IF hunks = <<>> THEN <<>> ELSE Head(hunks).lines \o hunk_lines(Tail(hunks))

\* The entry _build_file_line_mapping stores for one file entry of the diff IR.
file_mapping_entry(file_entry) ==
  LET entries == hunk_lines(file_entry.hunks)
      both == {k \in DOMAIN entries :
                 entries[k].old_lineno # None /\ entries[k].new_lineno # None}
  IN  [hunks |-> file_entry.hunks,
       touched_new_lines |->
         {entries[k].new_lineno : k \in
            {j \in DOMAIN entries : /\ entries[j].new_lineno # None
                                    /\ entries[j].type \in {"add", "context"}}},
       old_to_new |->
         [o \in {entries[k].old_lineno : k \in both} |->
            entries[CHOOSE k \in both :
                      /\ entries[k].old_lineno = o
                      /\ \A j \in both : entries[j].old_lineno = o => j <= k].new_lineno]]

\* mapping[file_path] = {...}: a later file entry of the same path replaces an
\* earlier one; entries without a file_path are skipped.
_build_file_line_mapping(ir) ==
  LET named == {k \in DOMAIN ir : ir[k].file_path # <<>>}
  IN  [p \in {ir[k].file_path : k \in named} |->
         file_mapping_entry(
           ir[CHOOSE k \in named : /\ ir[k].file_path = p
                                   /\ \A j \in named : ir[j].file_path = p => j <= k])]

\* A variant of nearest_touched that looks above the target before below it.
nearest_touched_UpFirst(touched, target, radius) ==
  IF target \in touched THEN target
  ELSE LET ds == {d \in 1..radius : (target - d) \in touched \/ (target + d) \in touched}
       IN  IF ds = {} THEN None
           ELSE LET d == CHOOSE x \in ds : \A y \in ds : x <= y
                IN  IF (target + d) \in touched THEN target + d ELSE target - d

\* nearest_touched(target), with the closure's touched and search_radius passed in.
nearest_touched(touched, target, radius) ==
  IF target \in touched THEN target
  ELSE LET ds == {d \in 1..radius : (target - d) \in touched \/ (target + d) \in touched}
       IN  IF ds = {} THEN None
           ELSE LET d == CHOOSE x \in ds : \A y \in ds : x <= y
                IN  IF (target - d) \in touched THEN target - d ELSE target + d

\* old_to_new.get(line)
old_to_new_get(old_to_new, line) ==
  IF line \in DOMAIN old_to_new THEN old_to_new[line] ELSE None

\* A variant of resolve_one that tries the line as an old-side number first.
resolve_one_OldFirst(file_mapping, line, radius) ==
  LET as_new == nearest_touched(file_mapping.touched_new_lines, line, radius)
      mapped == old_to_new_get(file_mapping.old_to_new, line)
  IN  IF mapped # None
      THEN nearest_touched(file_mapping.touched_new_lines, mapped, radius)
      ELSE as_new

\* nearest_touched(line), and when that fails nearest_touched(old_to_new.get(line)).
resolve_one(file_mapping, line, radius) ==
  LET as_new == nearest_touched(file_mapping.touched_new_lines, line, radius)
      mapped == old_to_new_get(file_mapping.old_to_new, line)
  IN  IF as_new # None THEN as_new
      ELSE IF mapped # None
           THEN nearest_touched(file_mapping.touched_new_lines, mapped, radius)
           ELSE None

\* The returned dict: ok is FALSE for None, ranged says whether the key
\* "start_line" is present.
Unresolved == [ok |-> FALSE, ranged |-> FALSE, start_line |-> None, line |-> None]
SingleLine(n) == [ok |-> TRUE, ranged |-> FALSE, start_line |-> None, line |-> n]
LineRange(a, b) == [ok |-> TRUE, ranged |-> TRUE, start_line |-> a, line |-> b]

\* A variant of _resolve_review_line that does not swap a resolved end that
\* precedes the resolved start.
_resolve_review_line_NoSwap(file_mapping, line_start, line_end, radius) ==
  LET start_new == resolve_one(file_mapping, line_start, radius)
      end_candidate == resolve_one(file_mapping, line_end, radius)
  IN  IF start_new = None THEN Unresolved
      ELSE IF line_end # None /\ line_end # line_start
           THEN IF end_candidate = None THEN SingleLine(start_new)
                ELSE LineRange(start_new, end_candidate)
           ELSE SingleLine(start_new)

_resolve_review_line(file_mapping, line_start, line_end, radius) ==
  LET start_new == resolve_one(file_mapping, line_start, radius)
      end_candidate == resolve_one(file_mapping, line_end, radius)
  IN  IF start_new = None THEN Unresolved
      ELSE IF line_end # None /\ line_end # line_start
           THEN IF end_candidate = None THEN SingleLine(start_new)
                ELSE IF end_candidate < start_new THEN LineRange(end_candidate, start_new)
                ELSE LineRange(start_new, end_candidate)
           ELSE SingleLine(start_new)

\* str.upper() of the severity names a finding carries.
upper_severity(severity) ==
  CASE severity = "critical" -> "CRITICAL"
    [] severity = "high"     -> "HIGH"
    [] severity = "medium"   -> "MEDIUM"
    [] severity = "low"      -> "LOW"
    [] severity = "unknown"  -> "UNKNOWN"
    [] OTHER                 -> severity

\* The comment body: the fields the text is assembled from.
comment_body(issue, issue_type) ==
  [issue_type |-> issue_type, severity |-> upper_severity(issue.severity),
   category |-> issue.category, title |-> issue.title]

\* The hunks of the file whose hunk_id is the issue's.
matching_hunks(hunks, hunk_id) == {k \in DOMAIN hunks : hunks[k].hunk_id = hunk_id}

\* A variant of hunk_end_line that is one line too far.
hunk_end_line_OffByOne(hunk) == hunk.new_start + hunk.new_count

\* The last line of a hunk's new range, as the hunk_id path computes it.
hunk_end_line(hunk) == hunk.new_start + hunk.new_count - 1

\* A comment dict; ranged says whether the key "start_line" is present.
InlineComment(path, body, ranged, start_line, line) ==
  [path |-> path, body |-> body, side |-> "RIGHT", ranged |-> ranged,
   start_line |-> start_line, line |-> line]

_convert_issue_to_inline_comment(issue, file_line_mapping, issue_type) ==
  LET meta == issue.meta
      file_path == meta.file_path
      body == comment_body(issue, issue_type)
  IN  IF file_path = <<>> \/ file_path \notin DOMAIN file_line_mapping THEN <<>>
      ELSE
        LET file_map == file_line_mapping[file_path]
            found == matching_hunks(file_map.hunks, meta.hunk_id)
            target_hunk == file_map.hunks[CHOOSE k \in found : \A j \in found : k <= j]
            line_end == IF meta.line_end # None THEN meta.line_end ELSE meta.line_start
            anchor == _resolve_review_line(
                          file_map, meta.line_start,
                          IF line_end # meta.line_start THEN line_end ELSE None,
                          search_radius)
        IN  IF meta.hunk_id # ""
            THEN IF found = {} THEN <<>>
                 ELSE <<InlineComment(file_path, body, TRUE, target_hunk.new_start,
                                      hunk_end_line(target_hunk))>>
            ELSE IF meta.line_start = None THEN <<>>
            ELSE IF ~anchor.ok THEN <<>>
            ELSE <<InlineComment(file_path, body, anchor.ranged,
                                 anchor.start_line, anchor.line)>>

-----------------------------------------------------------------------------
(* Specification of the resolver: one file of the diff IR with up to two    *)
(* hunks, and one issue whose _meta locates it by hunk_id or by lines.      *)

MaxLine == 8
Lines == 1..MaxLine

LineEntry(type, old, new) == [type |-> type, old_lineno |-> old, new_lineno |-> new]
\* A hunk holding one added line n.
AddHunk(id, n) ==
  [hunk_id |-> id, new_start |-> n, new_count |-> 1, lines |-> <<LineEntry("add", None, n)>>]
\* A hunk holding one unchanged line, old number o and new number n.
CtxHunk(id, o, n) ==
  [hunk_id |-> id, new_start |-> n, new_count |-> 1,
   lines |-> <<LineEntry("context", o, n)>>]
\* A hunk that only removes old line o.
DelHunk(id, o) ==
  [hunk_id |-> id, new_start |-> o - 1, new_count |-> 0,
   lines |-> <<LineEntry("del", o, None)>>]

FirstHunks ==
  {<<>>} \cup {<<AddHunk("h1", n)>> : n \in Lines} \cup {<<DelHunk("h1", o)>> : o \in Lines}
SecondHunks ==
  {<<>>} \cup {<<CtxHunk("h2", o, n)>> : o \in Lines, n \in Lines}
DiffIrPool ==
  {<<[file_path |-> <<"a.py">>, hunks |-> first \o second]>> :
     first \in FirstHunks, second \in SecondHunks}

MetaPool ==
  [file_path : {<<"a.py">>}, hunk_id : {""}, line_start : Lines, line_end : {None} \cup Lines]
    \cup [file_path : {<<"a.py">>}, hunk_id : {"h1", "h2", "h9"},
          line_start : {None, 1, MaxLine}, line_end : {None, MaxLine}]
    \cup [file_path : {<<>>, <<"b.py">>}, hunk_id : {""}, line_start : {1}, line_end : {None}]
    \cup [file_path : {<<"a.py">>}, hunk_id : {""}, line_start : {None}, line_end : {None}]

IssueObjPool ==
  [meta : MetaPool, severity : {"high"}, title : {"T1"}, category : {"logic"}]

InitPublish ==
  /\ diff_ir \in DiffIrPool
  /\ issue_obj \in IssueObjPool
  /\ resolved = <<>>
  /\ inline_comments = <<>>
  /\ pub_pc = "start"
  /\ RpIdle
  /\ SfIdle /\ AggIdle /\ ParseIdle /\ ScIdle

\* A direct call _resolve_review_line(file_mapping[file_path], line_start, line_end).
ResolveReviewLine ==
  /\ pub_pc = "start"
  /\ issue_obj.meta.file_path \in DOMAIN _build_file_line_mapping(diff_ir)
  /\ issue_obj.meta.line_start # None
  /\ resolved' = _resolve_review_line(
                   _build_file_line_mapping(diff_ir)[issue_obj.meta.file_path],
                   issue_obj.meta.line_start, issue_obj.meta.line_end, search_radius)
  /\ pub_pc' = "resolved"
  /\ UNCHANGED <<diff_ir, issue_obj, inline_comments, rpVars, sfVars, aggVars, parseVars, scVars>>

\* _convert_issue_to_inline_comment(issue_obj, _build_file_line_mapping(diff_ir), "Logic")
ConvertIssue ==
  /\ pub_pc = "start"
  /\ inline_comments' = _convert_issue_to_inline_comment(
                          issue_obj, _build_file_line_mapping(diff_ir), "Logic")
  /\ pub_pc' = "done"
  /\ UNCHANGED <<diff_ir, issue_obj, resolved, rpVars, sfVars, aggVars, parseVars, scVars>>

NextPublish == ResolveReviewLine \/ ConvertIssue

SpecPublish == InitPublish /\ [][NextPublish]_vars

\* The file mapping and the arguments of the call the state records.
TheFileMap == _build_file_line_mapping(diff_ir)[issue_obj.meta.file_path]
Touched == TheFileMap.touched_new_lines
OldToNew == TheFileMap.old_to_new
LineStart == issue_obj.meta.line_start
LineEnd == issue_obj.meta.line_end

Dist(a, b) == IF a >= b THEN a - b ELSE b - a

\* Some touched line lies within the search radius of x.
Near(x) == \E t \in Touched : Dist(t, x) <= search_radius

\* t is the touched line nearest to x within the radius, the lower one on a tie.
IsNearest(x, t) ==
  /\ t \in Touched
  /\ Dist(t, x) <= search_radius
  /\ \A u \in Touched : Dist(u, x) > Dist(t, x) \/ (Dist(u, x) = Dist(t, x) /\ t <= u)

NearestTo(x) == CHOOSE t \in Touched : IsNearest(x, t)

\* The line the resolved start of the returned anchor must be one of.
StartIs(t) ==
  /\ resolved.ok
  /\ IF resolved.ranged THEN t \in {resolved.start_line, resolved.line}
     ELSE resolved.line = t

\* C3: when a touched line lies within search_radius of line_start, the start
\* resolves to the touched line nearest to line_start: to line_start itself when
\* it is touched, to the lower line on equal distance; with touched lines {12, 20}
\* line 15 resolves to 12.
C3_NearestTouched ==
  /\ _resolve_review_line(
       [hunks |-> <<>>, touched_new_lines |-> {12, 20}, old_to_new |-> <<>>],
       15, None, search_radius) = SingleLine(12)
  /\ (pub_pc = "resolved" /\ Near(LineStart)) =>
       /\ \E t \in Touched : IsNearest(LineStart, t) /\ StartIs(t)
       /\ LineStart \in Touched => StartIs(LineStart)
       /\ \A d \in 1..search_radius :
            ( /\ (LineStart - d) \in Touched /\ (LineStart + d) \in Touched
              /\ \A u \in Touched : Dist(u, LineStart) >= d )
              => StartIs(LineStart - d)

\* A call whose line_start is not touched and has touched lines at the same
\* distance below and above it returned the lower one.
C3_Witness ==
  /\ pub_pc = "resolved"
  /\ LineEnd = None
  /\ LineStart \notin Touched
  /\ \E d \in 1..search_radius :
       /\ {LineStart - d, LineStart + d} \subseteq Touched
       /\ resolved = SingleLine(LineStart - d)

SearchValue(x) ==
  IF Near(x) THEN NearestTo(x)
  ELSE IF x \in DOMAIN OldToNew /\ Near(OldToNew[x]) THEN NearestTo(OldToNew[x])
  ELSE None

\* C5: with a line_end that differs from line_start, the end is resolved by the
\* same search; an unresolved end gives a single-line anchor at the resolved
\* start, a resolved end a range from the smaller to the larger resolved value.
C5_RangeAnchor ==
  (pub_pc = "resolved" /\ LineEnd # None /\ LineEnd # LineStart
     /\ SearchValue(LineStart) # None) =>
    LET s == SearchValue(LineStart)
        e == SearchValue(LineEnd)
    IN  IF e = None THEN resolved = SingleLine(s)
        ELSE resolved = LineRange(IF s <= e THEN s ELSE e, IF s <= e THEN e ELSE s)

\* A call whose end resolved below its start returned the swapped range.
C5_Witness ==
  /\ pub_pc = "resolved"
  /\ LineEnd # None /\ LineEnd # LineStart
  /\ SearchValue(LineStart) # None /\ SearchValue(LineEnd) # None
  /\ SearchValue(LineEnd) < SearchValue(LineStart)
  /\ resolved = LineRange(SearchValue(LineEnd), SearchValue(LineStart))

\* C6: an issue whose hunk_id matches a hunk of its file is anchored to the range
\* new_start .. new_start + new_count - 1 of that hunk, whatever line_start and
\* line_end it carries.
C6_HunkAnchor ==
  (pub_pc = "done" /\ issue_obj.meta.hunk_id # ""
     /\ issue_obj.meta.file_path \in {diff_ir[f].file_path : f \in DOMAIN diff_ir}) =>
    \A f \in DOMAIN diff_ir : \A h \in DOMAIN diff_ir[f].hunks :
      (diff_ir[f].file_path = issue_obj.meta.file_path
         /\ diff_ir[f].hunks[h].hunk_id = issue_obj.meta.hunk_id) =>
        /\ Len(inline_comments) = 1
        /\ inline_comments[1].path = issue_obj.meta.file_path
        /\ inline_comments[1].ranged
        /\ inline_comments[1].start_line = diff_ir[f].hunks[h].new_start
        /\ inline_comments[1].line =
             diff_ir[f].hunks[h].new_start + diff_ir[f].hunks[h].new_count - 1

\* An issue carrying both a matching hunk_id and a line_start far from the hunk
\* was anchored to the hunk's range.
C6_Witness ==
  /\ pub_pc = "done"
  /\ issue_obj.meta.hunk_id = "h2"
  /\ issue_obj.meta.line_start = MaxLine
  /\ Len(diff_ir[1].hunks) = 2
  /\ diff_ir[1].hunks[2].new_start = 1
  /\ Len(inline_comments) = 1
  /\ inline_comments[1].start_line = 1 /\ inline_comments[1].line = 1

-----------------------------------------------------------------------------
(* agents/aggregator.py: ResultAggregator.                                  *)
(* A raw finding is a dict: a function whose domain holds the keys it has.  *)
(* A path is the sequence of its "/"-separated components, the empty path   *)
(* <<>> being "".  Titles are sequences of characters.  A Severity or       *)
(* BugType member is written by its value.  A suggestion of None is "".     *)

\* dict.get(key, default)
dict_get(d, key, default) == IF key \in DOMAIN d THEN d[key] ELSE default

\* s[:n]
str_prefix(s, n) == SubSeq(s, 1, IF Len(s) < n THEN Len(s) ELSE n)

\* The number of title characters in the identity key.
TitleKeyLen == 30

\* A variant of dedup_key that cuts the title one character early.
dedup_key_ShortTitle(issue) ==
  <<dict_get(issue, "file", <<>>), dict_get(issue, "line", 0),
    str_prefix(dict_get(issue, "title", <<>>), TitleKeyLen - 1)>>

dedup_key(issue) ==
  <<dict_get(issue, "file", <<>>), dict_get(issue, "line", 0),
    str_prefix(dict_get(issue, "title", <<>>), TitleKeyLen)>>

\* A JSON null: a finding's title that is None.
PyNone == <<"<None>">>
\* issue.get("title", "")[:30] raises TypeError when the title is None.
dedup_raises(issues) ==
  \E k \in DOMAIN issues : dict_get(issues[k], "title", <<>>) = PyNone

RECURSIVE dedup_loop(_, _)
dedup_loop(issues, seen) ==
  IF issues = <<>> THEN <<>>
  ELSE IF dedup_key(Head(issues)) \notin seen
       THEN <<Head(issues)>> \o dedup_loop(Tail(issues), seen \cup {dedup_key(Head(issues))})
       ELSE dedup_loop(Tail(issues), seen)

_deduplicate_issues(issues) == dedup_loop(issues, {})

BugTypes ==
  {"logic_error", "security_vulnerability", "memory_issue", "syntax_error",
   "style_violation", "performance_issue"}

_map_bug_type(type_str) == IF type_str \in BugTypes THEN type_str ELSE "logic_error"

SevLow    == <<"l","o","w">>
SevMedium == <<"m","e","d","i","u","m">>
SevHigh   == <<"h","i","g","h">>

_map_severity(severity_str) ==
  LET s == lower(severity_str)
  IN  CASE s = SevLow      -> "low"
        [] s = SevMedium   -> "medium"
        [] s = SevHigh     -> "high"
        [] s = SevCritical -> "critical"
        [] OTHER           -> "medium"

\* str(n) for the counts an id is generated from.
DecimalStr == <<"0","1","2","3","4","5","6","7","8","9">>
\* f"bug-{n}"
generated_id(n) == <<"bug-", DecimalStr[n + 1]>>

DefaultTitle == <<"I","s","s","u","e"," ","f","o","u","n","d">>

\* Whether _convert_to_bugs skips the issue.
is_filtered_style(issue, incl_style) ==
  \/ ~incl_style /\ _map_bug_type(dict_get(issue, "type", "")) = "style_violation"
  \/ ~incl_style /\ dict_get(issue, "category", "") = "style"

\* The Bug built from an issue when n bugs were built before it.
make_bug(issue, n) ==
  [id          |-> dict_get(issue, "id", generated_id(n)),
   type        |-> _map_bug_type(dict_get(issue, "type", "")),
   severity    |-> _map_severity(dict_get(issue, "severity", SevMedium)),
   title       |-> dict_get(issue, "title", DefaultTitle),
   description |-> dict_get(issue, "description", ""),
   file        |-> dict_get(issue, "file", <<>>),
   line        |-> dict_get(issue, "line", 0),
   suggestion  |-> dict_get(issue, "suggestion", "")]

RECURSIVE convert_loop(_, _, _)
convert_loop(issues, incl_style, acc) ==
  IF issues = <<>> THEN acc
  ELSE IF is_filtered_style(Head(issues), incl_style)
       THEN convert_loop(Tail(issues), incl_style, acc)
       ELSE convert_loop(Tail(issues), incl_style,
                         Append(acc, make_bug(Head(issues), Len(acc))))

_convert_to_bugs(issues, incl_style) == convert_loop(issues, incl_style, <<>>)

\* self.severity_priority.get(b.severity, 99)
severity_priority(severity) ==
  CASE severity = "critical" -> 0
    [] severity = "high"     -> 1
    [] severity = "medium"   -> 2
    [] severity = "low"      -> 3
    [] OTHER                 -> 99

RECURSIVE with_priority(_, _)
with_priority(bs, p) ==
  IF bs = <<>> THEN <<>>
  ELSE (IF severity_priority(Head(bs).severity) = p THEN <<Head(bs)>> ELSE <<>>)
         \o with_priority(Tail(bs), p)

\* A variant of sorted_by_severity that lists each priority class backwards.
RECURSIVE reversed(_)
reversed(bs) == IF bs = <<>> THEN <<>> ELSE Append(reversed(Tail(bs)), Head(bs))
sorted_by_severity_Reversed(bs) ==
  with_priority(reversed(bs), 0) \o with_priority(reversed(bs), 1)
    \o with_priority(reversed(bs), 2) \o with_priority(reversed(bs), 3)
    \o with_priority(reversed(bs), 99)

\* sorted(bugs, key=priority): stable, so each priority class keeps its order.
sorted_by_severity(bs) ==
  with_priority(bs, 0) \o with_priority(bs, 1) \o with_priority(bs, 2)
    \o with_priority(bs, 3) \o with_priority(bs, 99)

\* range(hunk.new_start, hunk.new_start + hunk.new_count) and the added lines
hunk_valid_lines(hunk) ==
  {n \in hunk.new_start..(hunk.new_start + hunk.new_count - 1) : TRUE}
    \cup {hunk.added_lines[k][1] : k \in DOMAIN hunk.added_lines}

_get_valid_diff_lines(pd) ==
  UNION {UNION {{<<pd.files[f].filename, n>> : n \in hunk_valid_lines(pd.files[f].hunks[h])} :
                  h \in DOMAIN pd.files[f].hunks} : f \in DOMAIN pd.files}

\* Where the loop of _create_line_comments sends a bug.
bug_route(bug, pd) ==
  IF bug.file = <<>> \/ bug.line <= 0 THEN "skipped"
  ELSE IF pd.present /\ <<bug.file, bug.line>> \notin _get_valid_diff_lines(pd)
       THEN "off_diff"
       ELSE "located"

RECURSIVE bugs_routed(_, _, _)
bugs_routed(bs, pd, route) ==
  IF bs = <<>> THEN <<>>
  ELSE (IF bug_route(Head(bs), pd) = route THEN <<Head(bs)>> ELSE <<>>)
         \o bugs_routed(Tail(bs), pd, route)

\* The keys of bugs_by_location in insertion order.
RECURSIVE locations_in_order(_, _)
locations_in_order(bs, seen) ==
  IF bs = <<>> THEN <<>>
  ELSE LET location == <<Head(bs).file, Head(bs).line>>
       IN  IF location \in seen THEN locations_in_order(Tail(bs), seen)
           ELSE <<location>> \o locations_in_order(Tail(bs), seen \cup {location})

RECURSIVE bugs_at(_, _)
bugs_at(bs, location) ==
  IF bs = <<>> THEN <<>>
  ELSE (IF <<Head(bs).file, Head(bs).line>> = location THEN <<Head(bs)>> ELSE <<>>)
         \o bugs_at(Tail(bs), location)

\* One entry of a comment body; num is 0 in the single-issue format.
body_item(bug, num) ==
  [num |-> num, severity |-> upper_severity(bug.severity), title |-> bug.title,
   description |-> bug.description, suggestion |-> bug.suggestion]

\* The body of the comment for the bugs of one location.
comment_body_for(location_bugs) ==
  IF Len(location_bugs) = 1
  THEN [merged |-> FALSE, count |-> 1, items |-> <<body_item(location_bugs[1], 0)>>]
  ELSE [merged |-> TRUE, count |-> Len(location_bugs),
        items |-> [i \in 1..Len(location_bugs) |-> body_item(location_bugs[i], i)]]

LineComment(path, line, body) == [path |-> path, line |-> line, body |-> body, side |-> "RIGHT"]

\* A variant of comments_for that writes one comment per bug.
comments_for_Unmerged(located) ==
  [k \in 1..Len(located) |->
     LineComment(located[k].file, located[k].line, comment_body_for(<<located[k]>>))]

\* One comment per location, merging the bugs of the location.
comments_for(located) ==
  LET locations == locations_in_order(located, {})
  IN  [k \in 1..Len(locations) |->
         LineComment(locations[k][1], locations[k][2],
                     comment_body_for(bugs_at(located, locations[k])))]

\* A variant of _create_line_comments that loses the bugs outside the diff.
_create_line_comments_DropOffDiff(bs, pd) ==
  [comments |-> comments_for(bugs_routed(bs, pd, "located")), off_diff_bugs |-> <<>>]

_create_line_comments(bs, pd) ==
  [comments      |-> comments_for(bugs_routed(bs, pd, "located")),
   off_diff_bugs |-> bugs_routed(bs, pd, "off_diff")]

\* The number of bugs the appendix lists per severity.
AppendixCap == 5

RECURSIVE with_severity(_, _)
with_severity(bs, severity) ==
  IF bs = <<>> THEN <<>>
  ELSE (IF Head(bs).severity = severity THEN <<Head(bs)>> ELSE <<>>)
         \o with_severity(Tail(bs), severity)

AppendixLine(kind, severity, count, file, line, title) ==
  [kind |-> kind, severity |-> severity, count |-> count, file |-> file, line |-> line,
   title |-> title]

\* bug.file.split("/")[-1] if bug.file else "unknown"
file_short(file) == IF file # <<>> THEN file[Len(file)] ELSE "unknown"

\* A variant of appendix_group that shows one bug more before it adds the marker.
appendix_group_LateMarker(off, severity) ==
  LET group == with_severity(off, severity)
      shown == SubSeq(group, 1, IF Len(group) < AppendixCap + 1 THEN Len(group)
                                ELSE AppendixCap + 1)
  IN  IF group = <<>> THEN <<>>
      ELSE <<AppendixLine("group", upper_severity(severity), Len(group), "", 0, <<>>)>>
           \o [k \in 1..Len(shown) |->
                 AppendixLine("item", "", 0, file_short(shown[k].file), shown[k].line,
                              shown[k].title)]
           \o (IF Len(group) > AppendixCap + 1
               THEN <<AppendixLine("more", "", Len(group) - AppendixCap - 1, "", 0, <<>>)>>
               ELSE <<>>)

\* The lines of one severity group.
appendix_group(off, severity) ==
  LET group == with_severity(off, severity)
      shown == SubSeq(group, 1, IF Len(group) < AppendixCap THEN Len(group) ELSE AppendixCap)
  IN  IF group = <<>> THEN <<>>
      ELSE <<AppendixLine("group", upper_severity(severity), Len(group), "", 0, <<>>)>>
           \o [k \in 1..Len(shown) |->
                 AppendixLine("item", "", 0, file_short(shown[k].file), shown[k].line,
                              shown[k].title)]
           \o (IF Len(group) > AppendixCap
               THEN <<AppendixLine("more", "", Len(group) - AppendixCap, "", 0, <<>>)>>
               ELSE <<>>)

\* The lines _add_off_diff_issues_to_summary appends to pr_summary.ai_summary.
_add_off_diff_issues_to_summary(off) ==
  IF off = <<>> THEN <<>>
  ELSE <<AppendixLine("header", "", Len(off), "", 0, <<>>)>>
       \o appendix_group(off, "critical") \o appendix_group(off, "high")
       \o appendix_group(off, "medium") \o appendix_group(off, "low")

\* all_issues.extend(result.issues) for every successful result, in order.
RECURSIVE collect_issues(_)
collect_issues(rs) ==
  IF rs = <<>> THEN <<>>
  ELSE (IF Head(rs).success THEN Head(rs).issues ELSE <<>>) \o collect_issues(Tail(rs))

\* orchestrator._build_diff_ir_from_parsed: the diff IR the line resolver reads,
\* holding the added and removed lines of each hunk.
diff_ir_hunk(hunk) ==
  [hunk_id |-> "", new_start |-> hunk.new_start, new_count |-> hunk.new_count,
   lines |->
     [k \in 1..Len(hunk.added_lines) |-> 
        [type |-> "add", old_lineno |-> None, new_lineno |-> hunk.added_lines[k][1]]]
     \o [k \in 1..Len(hunk.removed_lines) |->
        [type |-> "del", old_lineno |-> hunk.removed_lines[k][1], new_lineno |-> None]]]

_build_diff_ir_from_parsed(pd) ==
  [f \in 1..Len(pd.files) |->
     [file_path |-> pd.files[f].filename,
      hunks |-> [h \in 1..Len(pd.files[f].hunks) |-> diff_ir_hunk(pd.files[f].hunks[h])]]]

-----------------------------------------------------------------------------
(* Specification of the aggregation pass: up to MaxIssues raw findings from *)
(* the pool, handed in by the structure and logic detectors, one detector   *)
(* possibly failed, no scoring filter configured.                           *)

MaxIssues == 2

FileA == <<"src", "a.py">>
FileB == <<"src", "b.py">>
Title1 == <<"t","1">>
Title2 == <<"t","2">>
Title3 == <<"t","3">>

\* A title of 31 characters: c30 is its 30th character, c31 its 31st.
LongTitle(c30, c31) ==
  [k \in 1..31 |-> IF k = 30 THEN c30 ELSE IF k = 31 THEN c31 ELSE "x"]

FindingPool ==
  { [file |-> FileA, line |-> 2, title |-> Title1, severity |-> SevCritical,
     type |-> "logic_error", description |-> "d1"],
    [file |-> FileA, line |-> 2, title |-> Title2, severity |-> <<"H","I","G","H">>,
     type |-> "security_vulnerability", description |-> "d2", suggestion |-> "s2"],
    [file |-> FileA, line |-> 5, title |-> Title1, severity |-> SevCritical,
     type |-> "style_violation"],
    [file |-> FileA, line |-> 50, title |-> Title3, severity |-> SevLow,
     type |-> "memory_issue"],
    [file |-> FileA, line |-> 5, title |-> Title2, severity |-> SevMedium],
    [line |-> 2, title |-> Title1, severity |-> SevCritical, type |-> "syntax_error"],
    [file |-> FileA, title |-> Title2, severity |-> SevLow, type |-> "logic_error"],
    [file |-> FileB, line |-> 2, title |-> Title1, severity |-> SevHigh,
     type |-> "logic_error"],
    [file |-> FileA, line |-> 2, title |-> Title1, severity |-> SevLow,
     type |-> "performance_issue"],
    [file |-> FileA, line |-> 50, title |-> Title2, severity |-> SevCritical,
     type |-> "logic_error", category |-> "style"],
    [file |-> FileA, line |-> 3, title |-> Title3, severity |-> <<"b","a","d">>,
     type |-> "other", id |-> <<"x1">>],
    [file |-> FileA, line |-> 7, title |-> LongTitle("a", "a"), severity |-> SevHigh,
     type |-> "logic_error"],
    [file |-> FileA, line |-> 7, title |-> LongTitle("a", "b"), severity |-> SevLow,
     type |-> "memory_issue"],
    [file |-> FileA, line |-> 7, title |-> LongTitle("c", "a"), severity |-> SevMedium,
     type |-> "logic_error"],
    [file |-> FileA, line |-> 2, title |-> PyNone, severity |-> SevHigh,
     type |-> "logic_error"],
    [file |-> FileB, line |-> 3, title |-> Title2, severity |-> SevMedium,
     type |-> "logic_error", id |-> generated_id(1)] }

RECURSIVE SeqsUpTo(_, _)
SeqsUpTo(S, n) ==
  IF n = 0 THEN {<<>>}
  ELSE SeqsUpTo(S, n - 1) \cup {Append(s, x) : s \in SeqsUpTo(S, n - 1), x \in S}

DiffHunk(old_start, old_count, new_start, new_count, added_lines, removed_lines) ==
  [old_start |-> old_start, old_count |-> old_count, new_start |-> new_start,
   new_count |-> new_count, added_lines |-> added_lines, removed_lines |-> removed_lines]

\* `@@ -1,2 +1,3 @@` with body ` line1`, `+line2new`, ` line2`
ScenarioDiff ==
  [present |-> TRUE,
   files |-> <<[filename |-> FileA,
                hunks |-> <<DiffHunk(1, 2, 1, 3, <<<<2, "line2new">>>>, <<>>)>>]>>]
\* `@@ -4,2 +4,1 @@` with body ` keep`, `-gone`, and a second file
OtherDiff ==
  [present |-> TRUE,
   files |-> <<[filename |-> FileA,
                hunks |-> <<DiffHunk(4, 2, 4, 1, <<>>, <<<<5, "gone">>>>)>>],
               [filename |-> FileB,
                hunks |-> <<DiffHunk(2, 0, 2, 1, <<<<2, "new">>>>, <<>>)>>]>>]
ParsedDiffPool == {ScenarioDiff, OtherDiff}

AgentResult(success, issues) == [success |-> success, issues |-> issues]

\* The four results: the first finding comes from the structure detector, the
\* others from the logic detector; detector `failed` (0: none) did not succeed.
ResultsOf(found, failed) ==
  <<AgentResult(failed # 1, SubSeq(found, 1, IF Len(found) < 1 THEN Len(found) ELSE 1)),
    AgentResult(failed # 2, <<>>),
    AgentResult(failed # 3, SubSeq(found, 2, Len(found))),
    AgentResult(failed # 4, <<>>)>>

InitAggregate ==
  /\ results \in {ResultsOf(found, failed) :
                    found \in SeqsUpTo(FindingPool, MaxIssues), failed \in 0..4}
  /\ include_style \in BOOLEAN
  /\ parsed_diff \in ParsedDiffPool
  /\ all_issues = <<>>
  /\ bugs = <<>>
  /\ line_comments = <<>>
  /\ off_diff_bugs = <<>>
  /\ appendix = <<>>
  /\ agg_pc = "start"
  /\ detectors = <<>>
  /\ SfIdle /\ PubIdle /\ ParseIdle /\ ScIdle

\* ResultAggregator.aggregate with self.scoring_filter = None.  When the key of
\* _deduplicate_issues cannot be built the TypeError leaves aggregate.
Aggregate ==
  /\ agg_pc = "start"
  /\ IF dedup_raises(collect_issues(results))
       THEN /\ agg_pc' = "raised"
            /\ UNCHANGED <<all_issues, bugs, line_comments, off_diff_bugs, appendix>>
       ELSE /\ LET deduplicated == _deduplicate_issues(collect_issues(results))
                   sorted_bugs ==
                     sorted_by_severity(_convert_to_bugs(deduplicated, include_style))
                   placed == _create_line_comments(sorted_bugs, parsed_diff)
               IN  /\ all_issues' = deduplicated
                   /\ bugs' = sorted_bugs
                   /\ line_comments' = placed.comments
                   /\ off_diff_bugs' = placed.off_diff_bugs
                   /\ appendix' = _add_off_diff_issues_to_summary(placed.off_diff_bugs)
            /\ agg_pc' = "done"
  /\ UNCHANGED <<results, include_style, parsed_diff, detectors,
                 sfVars, pubVars, parseVars, scVars>>

NextAggregate == Aggregate

SpecAggregate == InitAggregate /\ [][NextAggregate]_vars

\* The bug is the conversion of the raw finding.
BugOf(bug, issue) ==
  /\ bug.file = dict_get(issue, "file", <<>>)
  /\ bug.line = dict_get(issue, "line", 0)
  /\ bug.title = dict_get(issue, "title", DefaultTitle)
  /\ bug.severity = _map_severity(dict_get(issue, "severity", SevMedium))

InSeq(x, s) == \E k \in DOMAIN s : s[k] = x

\* C2: with no scoring filter and include_style false, every finding of severity
\* critical collected from a successful detector that survives deduplication is
\* in the emitted bug list, whatever its type or category.
C2_CriticalNeverDropped ==
  (agg_pc = "done" /\ ~include_style) =>
    \A d \in DOMAIN results : \A k \in DOMAIN results[d].issues :
      LET issue == results[d].issues[k]
      IN  (results[d].success /\ dict_get(issue, "severity", SevMedium) = SevCritical
             /\ InSeq(issue, all_issues))
            => \E b \in DOMAIN bugs : BugOf(bugs[b], issue)

\* (file, line) is a line of the new range of a hunk of the file, or an added line.
Commentable(file, line) ==
  \E f \in DOMAIN parsed_diff.files : \E h \in DOMAIN parsed_diff.files[f].hunks :
    LET hunk == parsed_diff.files[f].hunks[h]
    IN  /\ parsed_diff.files[f].filename = file
        /\ \/ hunk.new_start <= line /\ line < hunk.new_start + hunk.new_count
           \/ \E a \in DOMAIN hunk.added_lines : hunk.added_lines[a][1] = line

\* The comment's body lists the bug.
Lists(comment, bug) ==
  \E i \in DOMAIN comment.body.items :
    /\ comment.body.items[i].title = bug.title
    /\ comment.body.items[i].severity = upper_severity(bug.severity)

CommentedAt(bug) ==
  \E c \in DOMAIN line_comments :
    /\ line_comments[c].path = bug.file /\ line_comments[c].line = bug.line
    /\ Lists(line_comments[c], bug)

AnyCommentAt(bug) ==
  \E c \in DOMAIN line_comments :
    line_comments[c].path = bug.file /\ line_comments[c].line = bug.line

Scenario2 ==
  [id |-> <<"bug-", "0">>, type |-> "syntax_error", severity |-> "high", title |-> Title1,
   description |-> "", file |-> FileA, line |-> 2, suggestion |-> ""]
Scenario50 == [Scenario2 EXCEPT !.id = <<"bug-", "1">>, !.line = 50, !.title = Title2]

\* C7: every bug with a file and a positive line ends either in a comment at its
\* (file, line), when that line is commentable in the diff, or else in the
\* off-diff list of the summary appendix, never in both; in the scenario diff a
\* finding at line 2 gives one comment at line 2, one at line 50 only an appendix
\* entry.
C7_CommentOrAppendix ==
  /\ _create_line_comments(<<Scenario2, Scenario50>>, ScenarioDiff) =
       [comments |-> <<LineComment(FileA, 2, comment_body_for(<<Scenario2>>))>>,
        off_diff_bugs |-> <<Scenario50>>]
  /\ agg_pc = "done" =>
       /\ \A b \in DOMAIN bugs :
            (bugs[b].file # <<>> /\ bugs[b].line > 0) =>
              IF Commentable(bugs[b].file, bugs[b].line)
              THEN CommentedAt(bugs[b]) /\ ~InSeq(bugs[b], off_diff_bugs)
              ELSE InSeq(bugs[b], off_diff_bugs) /\ ~AnyCommentAt(bugs[b])
       /\ \A c \in DOMAIN line_comments :
            Commentable(line_comments[c].path, line_comments[c].line)
       /\ \A o \in DOMAIN off_diff_bugs :
            /\ InSeq(off_diff_bugs[o], bugs)
            /\ ~Commentable(off_diff_bugs[o].file, off_diff_bugs[o].line)
       /\ (off_diff_bugs # <<>>) =>
            /\ appendix # <<>>
            /\ appendix[1].kind = "header" /\ appendix[1].count = Len(off_diff_bugs)

\* A pass placed one bug in a comment and sent another of the same file to the
\* appendix.
C7_Witness ==
  /\ agg_pc = "done"
  /\ Len(line_comments) = 1
  /\ Len(off_diff_bugs) = 1
  /\ line_comments[1].path = off_diff_bugs[1].file
  /\ Len(bugs) = 2

\* The bugs that were given a comment, in the order of the bug list.
LocatedBugs == bugs_routed(bugs, parsed_diff, "located")
\* Those of them at the anchor (path, line), in order.
RECURSIVE AtAnchor(_, _, _)
AtAnchor(bs, path, line) ==
  IF bs = <<>> THEN <<>>
  ELSE (IF Head(bs).file = path /\ Head(bs).line = line THEN <<Head(bs)>> ELSE <<>>)
         \o AtAnchor(Tail(bs), path, line)

\* C8: the findings placed at one anchor (file, line) produce exactly one comment;
\* its body holds the title and severity of each, numbered when there is more
\* than one; a comment holds no finding of another anchor.
C8_MergedComment ==
  agg_pc = "done" =>
    /\ \A c, e \in DOMAIN line_comments :
         (line_comments[c].path = line_comments[e].path
            /\ line_comments[c].line = line_comments[e].line) => c = e
    /\ \A b \in DOMAIN bugs :
         (bugs[b].file # <<>> /\ bugs[b].line > 0 /\ ~InSeq(bugs[b], off_diff_bugs))
           => CommentedAt(bugs[b])
    /\ \A c \in DOMAIN line_comments :
         LET here == AtAnchor(bugs, line_comments[c].path, line_comments[c].line)
             items == line_comments[c].body.items
         IN  /\ Len(items) = Len(here)
             /\ \A i \in DOMAIN items :
                  /\ items[i].title = here[i].title
                  /\ items[i].severity = upper_severity(here[i].severity)
                  /\ items[i].num = IF Len(here) > 1 THEN i ELSE 0
             /\ line_comments[c].body.merged <=> Len(here) > 1

\* Two findings at the same line were merged into one numbered comment.
C8_Witness ==
  /\ agg_pc = "done"
  /\ Len(bugs) = 2
  /\ Len(line_comments) = 1
  /\ line_comments[1].body.merged
  /\ Len(line_comments[1].body.items) = 2
  /\ line_comments[1].body.items[1].title # line_comments[1].body.items[2].title

\* What the review line resolver returns for a bug against its file's entry.
ResolverAnchor(bug) ==
  _resolve_review_line(
    _build_file_line_mapping(_build_diff_ir_from_parsed(parsed_diff))[bug.file],
    bug.line, None, search_radius)

\* C9: every bug is placed by the review line resolver: a bug the resolver gives
\* an anchor has a comment at that anchor, and a bug is in the appendix only when
\* the resolver returns unresolved.
C9_PlacedByResolver ==
  agg_pc = "done" =>
    \A b \in DOMAIN bugs :
      (bugs[b].file # <<>> /\ bugs[b].line > 0
         /\ \E f \in DOMAIN parsed_diff.files : parsed_diff.files[f].filename = bugs[b].file)
        => /\ ResolverAnchor(bugs[b]).ok =>
                \E c \in DOMAIN line_comments :
                  /\ line_comments[c].path = bugs[b].file
                  /\ line_comments[c].line = ResolverAnchor(bugs[b]).line
                  /\ Lists(line_comments[c], bugs[b])
           /\ InSeq(bugs[b], off_diff_bugs) => ~ResolverAnchor(bugs[b]).ok

-----------------------------------------------------------------------------
(* src/agents/preprocessing/diff_parser.py: DiffParser.parse_unified_diff.  *)
(* A line is a sequence of one-character strings.  FileDiff and DiffHunk    *)
(* objects live in file_heap and hunk_heap and are named by their index, so *)
(* that appending the same object twice is visible.  DiffHunk.content, a    *)
(* string the code extends with "\n" + line, is kept as the list of its     *)
(* lines (no line holds a "\n": the lines come from split("\n")).           *)

\* \d
is_digit(c) == \E k \in 1..10 : DecimalStr[k] = c
digit_value(c) == (CHOOSE k \in 1..10 : DecimalStr[k] = c) - 1
\* int(s) for a non-empty run of digits
RECURSIVE int(_)
int(s) ==
  IF Len(s) = 0 THEN 0
  ELSE 10 * int(SubSeq(s, 1, Len(s) - 1)) + digit_value(s[Len(s)])

\* The end of the longest run of digits of s that starts at position p
\* (p - 1 when s[p] is no digit): what a greedy \d+ consumes.
RECURSIVE digits_end(_, _)
digits_end(s, p) ==
  IF p <= Len(s) /\ is_digit(s[p]) THEN digits_end(s, p + 1) ELSE p - 1

\* Whether s holds the literal lit at position p.
literal_at(s, p, lit) ==
  /\ p + Len(lit) - 1 <= Len(s)
  /\ SubSeq(s, p, p + Len(lit) - 1) = lit

NoMatch == [matched |-> FALSE]

\* (\d+)(?:,(\d+))? at position p: the first group, the optional second
\* group (<<>> for None) and the position after the match.
number_pair_at(s, p) ==
  LET e1 == digits_end(s, p)
  IN  IF e1 < p THEN NoMatch
      ELSE LET e2 == digits_end(s, e1 + 2)
           IN  IF literal_at(s, e1 + 1, <<",">>) /\ e2 >= e1 + 2
                 THEN [matched |-> TRUE, first |-> SubSeq(s, p, e1),
                       second |-> SubSeq(s, e1 + 2, e2), next |-> e2 + 1]
                 ELSE [matched |-> TRUE, first |-> SubSeq(s, p, e1),
                       second |-> <<>>, next |-> e1 + 1]

\* HUNK_HEADER_PATTERN.match(line):
\*   ^@@ -(\d+)(?:,(\d+))? \+(\d+)(?:,(\d+))? @@
HUNK_HEADER_PATTERN_match(line) ==
  IF ~literal_at(line, 1, <<"@","@"," ","-">>) THEN NoMatch
  ELSE LET old == number_pair_at(line, 5)
       IN  IF ~old.matched \/ ~literal_at(line, old.next, <<" ","+">>) THEN NoMatch
           ELSE LET new == number_pair_at(line, old.next + 2)
                IN  IF ~new.matched \/ ~literal_at(line, new.next, <<" ","@","@">>)
                      THEN NoMatch
                      ELSE [matched |-> TRUE, group1 |-> old.first, group2 |-> old.second,
                            group3 |-> new.first, group4 |-> new.second]

\* re.search(r"diff --git a/(.+) b/(.+)", line): the leftmost start, the
\* first group as long as it can be; group(2) runs to the end of the line.
DiffGitPrefix == <<"d","i","f","f"," ","-","-","g","i","t"," ","a","/">>
diff_git_search(line) ==
  LET splits(p) == {q \in (p + Len(DiffGitPrefix) + 1)..(Len(line) - 3) :
                      literal_at(line, q, <<" ","b","/">>)}
      starts == {p \in 1..Len(line) :
                   literal_at(line, p, DiffGitPrefix) /\ splits(p) # {}}
  IN  IF starts = {} THEN NoMatch
      ELSE LET p == CHOOSE x \in starts : \A y \in starts : x <= y
               q == CHOOSE x \in splits(p) : \A y \in splits(p) : y <= x
           IN  [matched |-> TRUE, group2 |-> SubSeq(line, q + 3, Len(line))]

\* FileDiff(filename=filename, status="modified", additions=0, deletions=0)
FileDiff(filename) ==
  [filename |-> filename, status |-> "modified", additions |-> 0, deletions |-> 0,
   hunks |-> <<>>]

\* A variant of hunk_from_header that takes an omitted count as 0.
hunk_from_header_OmittedZero(m, line) ==
  [old_start |-> int(m.group1),
   old_count |-> IF m.group2 # <<>> THEN int(m.group2) ELSE 0,
   new_start |-> int(m.group3),
   new_count |-> IF m.group4 # <<>> THEN int(m.group4) ELSE 0,
   content |-> <<line>>, added_lines |-> <<>>, removed_lines |-> <<>>]

\* DiffHunk(old_start=..., old_count=..., new_start=..., new_count=..., content=line)
hunk_from_header(m, line) ==
  [old_start |-> int(m.group1),
   old_count |-> IF m.group2 # <<>> THEN int(m.group2) ELSE 1,
   new_start |-> int(m.group3),
   new_count |-> IF m.group4 # <<>> THEN int(m.group4) ELSE 1,
   content |-> <<line>>, added_lines |-> <<>>, removed_lines |-> <<>>]

is_added_line(line) ==
  startswith(line, <<"+">>) /\ ~startswith(line, <<"+","+","+">>)
is_removed_line(line) ==
  startswith(line, <<"-">>) /\ ~startswith(line, <<"-","-","-">>)

\* A variant of hunk_body_line in which a removed line advances the counter too.
hunk_body_line_AdvanceOnRemoved(hunk, num, line) ==
  IF is_added_line(line) THEN
    [hunk |-> [hunk EXCEPT !.added_lines = Append(@, <<num, Tail(line)>>),
                           !.content = Append(@, line)],
     num |-> num + 1, additions |-> 1, deletions |-> 0]
  ELSE IF is_removed_line(line) THEN
    [hunk |-> [hunk EXCEPT !.removed_lines = Append(@, <<num, Tail(line)>>),
                           !.content = Append(@, line)],
     num |-> num + 1, additions |-> 0, deletions |-> 1]
  ELSE
    [hunk |-> [hunk EXCEPT !.content = Append(@, line)],
     num |-> IF startswith(line, <<"\\">>) THEN num ELSE num + 1,
     additions |-> 0, deletions |-> 0]

\* The body branch of the loop: the hunk and the counter after the line, and
\* what the line adds to the current file's additions and deletions.
hunk_body_line(hunk, num, line) ==
  IF is_added_line(line) THEN
    [hunk |-> [hunk EXCEPT !.added_lines = Append(@, <<num, Tail(line)>>),
                           !.content = Append(@, line)],
     num |-> num + 1, additions |-> 1, deletions |-> 0]
  ELSE IF is_removed_line(line) THEN
    [hunk |-> [hunk EXCEPT !.removed_lines = Append(@, <<num, Tail(line)>>),
                           !.content = Append(@, line)],
     num |-> num, additions |-> 0, deletions |-> 1]
  ELSE
    [hunk |-> [hunk EXCEPT !.content = Append(@, line)],
     num |-> IF startswith(line, <<"\\">>) THEN num ELSE num + 1,
     additions |-> 0, deletions |-> 0]

\* current_file.hunks.append(current_hunk), when both are set
with_hunk_appended(heap, file, hunk) ==
  IF file # None /\ hunk # None
    THEN [heap EXCEPT ![file].hunks = Append(@, hunk)]
    ELSE heap

-----------------------------------------------------------------------------
(* The parser's specification: the lines of the diff text are drawn one at  *)
(* a time; the end of the text may follow any line.                         *)

MaxDiffLines == 4

DiffGitF  == <<"d","i","f","f"," ","-","-","g","i","t"," ","a","/","f"," ","b","/","f">>
OldNull   == <<"-","-","-"," ","/","d","e","v","/","n","u","l","l">>
NewNull   == <<"+","+","+"," ","/","d","e","v","/","n","u","l","l">>
Hunk10    == <<"@","@"," ","-","1","0",",","3"," ","+","1","0",",","5"," ","@","@">>
Hunk1     == <<"@","@"," ","-","1"," ","+","2"," ","@","@">>
HunkBad   == <<"@","@"," ","b","a","d">>
AddX      == <<"+","x">>
DelY      == <<"-","y">>
CtxZ      == <<" ","z">>
NoNewline == <<"\\"," ","N","o"," ","n","e","w","l","i","n","e">>
DiffGitG  == <<"d","i","f","f"," ","-","-","g","i","t"," ","a","/","g"," ","b","/","g">>
DiffGitNoMatch == <<"d","i","f","f"," ","-","-","g","i","t"," ","x">>
Hunk0     == <<"@","@"," ","-","0",",","0"," ","+","1",",","1","2"," ","@","@">>
Hunk7     == <<"@","@"," ","-","7",",","2"," ","+","9"," ","@","@">>
Hunk3     == <<"@","@"," ","-","3"," ","+","4",",","2"," ","@","@"," ","d","e","f"," ","f","(",")",":">>
\* An added line whose text is `++ i`.
AddIncr   == <<"+","+","+"," ","i">>
LinePool ==
  {DiffGitF, OldNull, NewNull, Hunk10, Hunk1, HunkBad, AddX, DelY, CtxZ, NoNewline,
   DiffGitG, DiffGitNoMatch, Hunk0, Hunk7, Hunk3, AddIncr}

\* files_changed.json: absent, or the list of its per-file entries.
NoFilesChanged == [present |-> FALSE, entries |-> <<>>]
FilesChanged(entries) == [present |-> TRUE, entries |-> entries]
FilesChangedPool ==
  { NoFilesChanged,
    FilesChanged(<<[filename |-> <<"f">>, additions |-> 0, deletions |-> 0]>>),
    FilesChanged(<<[filename |-> <<"f">>, additions |-> 3, deletions |-> 1],
                   [filename |-> <<"g">>, deletions |-> 2]>>) }

\* ParsedDiff(files=..., total_additions=..., total_deletions=..., total_files=...)
ParsedDiff(fs, total_additions, total_deletions) ==
  [files |-> fs, total_additions |-> total_additions,
   total_deletions |-> total_deletions, total_files |-> Len(fs)]
\* The value of `parsed` before parse_pr_folder returns.
NoParsedDiff == ParsedDiff(<<>>, 0, 0)

\* The loop over files_changed: the sum of file_info.get(key, 0)
RECURSIVE stat_total(_, _)
stat_total(entries, key) ==
  IF entries = <<>> THEN 0
  ELSE dict_get(Head(entries), key, 0) + stat_total(Tail(entries), key)

InitParse ==
  /\ files = <<>>
  /\ file_heap = <<>>
  /\ hunk_heap = <<>>
  /\ current_file = None
  /\ current_hunk = None
  /\ new_line_num = 0
  /\ line_no = 0
  /\ parse_pc = "loop"
  /\ hunk_file = <<>>
  /\ hunk_read = <<>>
  /\ files_changed = NoFilesChanged
  /\ parsed = NoParsedDiff
  /\ SfIdle /\ PubIdle /\ AggIdle /\ ScIdle

\* `while i < len(lines)` with one more line to read
MoreLines == parse_pc = "loop" /\ line_no < MaxDiffLines

\* if line.startswith("diff --git")
ParseFileHeader ==
  /\ MoreLines
  /\ \E line \in LinePool :
       /\ startswith(line, <<"d","i","f","f"," ","-","-","g","i","t">>)
       /\ LET closed == with_hunk_appended(file_heap, current_file, current_hunk)
              m == diff_git_search(line)
          IN  /\ files' = IF current_file # None THEN Append(files, current_file)
                                                 ELSE files
              /\ IF m.matched
                   THEN /\ file_heap' = Append(closed, FileDiff(m.group2))
                        /\ current_file' = Len(closed) + 1
                   ELSE /\ file_heap' = closed
                        /\ current_file' = current_file
  /\ current_hunk' = None
  /\ line_no' = line_no + 1
  /\ UNCHANGED <<hunk_heap, new_line_num, parse_pc, hunk_file, hunk_read, prVars, sfVars, pubVars,
                 aggVars, scVars>>

\* elif line.startswith("--- ") / elif line.startswith("+++ ")
ParseFileMarker ==
  /\ MoreLines
  /\ \E line \in LinePool :
       /\ ~startswith(line, <<"d","i","f","f"," ","-","-","g","i","t">>)
       /\ hunk_read' = IF current_hunk # None
                         THEN [hunk_read EXCEPT ![current_hunk] = Append(@, line)]
                         ELSE hunk_read
       /\ \/ /\ startswith(line, <<"-","-","-"," ">>)
             /\ file_heap' = IF current_file # None /\ line = OldNull
                               THEN [file_heap EXCEPT ![current_file].status = "added"]
                               ELSE file_heap
          \/ /\ ~startswith(line, <<"-","-","-"," ">>)
             /\ startswith(line, <<"+","+","+"," ">>)
             /\ file_heap' = IF current_file # None /\ line = NewNull
                               THEN [file_heap EXCEPT ![current_file].status = "deleted"]
                               ELSE file_heap
  /\ line_no' = line_no + 1
  /\ UNCHANGED <<files, hunk_heap, current_file, current_hunk, new_line_num, parse_pc,
                 hunk_file, prVars, sfVars, pubVars, aggVars, scVars>>

is_header_line(line) ==
  \/ startswith(line, <<"d","i","f","f"," ","-","-","g","i","t">>)
  \/ startswith(line, <<"-","-","-"," ">>)
  \/ startswith(line, <<"+","+","+"," ">>)

\* elif line.startswith("@@")
ParseHunkHeader ==
  /\ MoreLines
  /\ \E line \in LinePool :
       /\ ~is_header_line(line)
       /\ startswith(line, <<"@","@">>)
       /\ LET m == HUNK_HEADER_PATTERN_match(line)
          IN  /\ file_heap' = with_hunk_appended(file_heap, current_file, current_hunk)
              /\ IF m.matched
                   THEN /\ hunk_heap' = Append(hunk_heap, hunk_from_header(m, line))
                        /\ current_hunk' = Len(hunk_heap) + 1
                        /\ new_line_num' = int(m.group3)
                        /\ hunk_file' = Append(hunk_file, current_file)
                        /\ hunk_read' = Append(hunk_read, <<>>)
                   ELSE UNCHANGED <<hunk_heap, current_hunk, new_line_num, hunk_file,
                                    hunk_read>>
  /\ line_no' = line_no + 1
  /\ UNCHANGED <<files, current_file, parse_pc, prVars, sfVars, pubVars, aggVars, scVars>>

\* elif current_hunk is not None
ParseBodyLine ==
  /\ MoreLines
  /\ current_hunk # None
  /\ \E line \in LinePool :
       /\ ~is_header_line(line)
       /\ ~startswith(line, <<"@","@">>)
       /\ LET r == hunk_body_line(hunk_heap[current_hunk], new_line_num, line)
          IN  /\ hunk_heap' = [hunk_heap EXCEPT ![current_hunk] = r.hunk]
              /\ hunk_read' = [hunk_read EXCEPT ![current_hunk] = Append(@, line)]
              /\ new_line_num' = r.num
              /\ file_heap' =
                   IF current_file # None
                     THEN [file_heap EXCEPT
                             ![current_file].additions = @ + r.additions,
                             ![current_file].deletions = @ + r.deletions]
                     ELSE file_heap
  /\ line_no' = line_no + 1
  /\ UNCHANGED <<files, current_file, current_hunk, parse_pc, hunk_file, prVars, sfVars, pubVars, aggVars, scVars>>

\* A line outside every branch: only `i += 1`
SkipLine ==
  /\ MoreLines
  /\ current_hunk = None
  /\ \E line \in LinePool :
       /\ ~is_header_line(line)
       /\ ~startswith(line, <<"@","@">>)
  /\ line_no' = line_no + 1
  /\ UNCHANGED <<files, file_heap, hunk_heap, current_file, current_hunk, new_line_num,
                 parse_pc, hunk_file, hunk_read, prVars, sfVars, pubVars, aggVars, scVars>>

\* After the loop: the last file, and its last hunk, are closed.  The text
\* has at least one line ("".split("\n") is [""]).
FinishParse ==
  /\ parse_pc = "loop"
  /\ line_no >= 1
  /\ file_heap' = IF current_file # None
                    THEN with_hunk_appended(file_heap, current_file, current_hunk)
                    ELSE file_heap
  /\ files' = IF current_file # None THEN Append(files, current_file) ELSE files
  /\ parse_pc' = "done"
  /\ UNCHANGED <<hunk_heap, current_file, current_hunk, new_line_num, line_no,
                 hunk_file, hunk_read, prVars, sfVars, pubVars, aggVars, scVars>>

\* parse_pr_folder after parse_unified_diff returned: the totals are read
\* from files_changed.json when it exists.
ParsePrFolder ==
  /\ parse_pc = "done"
  /\ \E fc \in FilesChangedPool :
       /\ files_changed' = fc
       /\ parsed' = ParsedDiff(files, stat_total(fc.entries, "additions"),
                               stat_total(fc.entries, "deletions"))
  /\ parse_pc' = "returned"
  /\ UNCHANGED <<files, file_heap, hunk_heap, current_file, current_hunk, new_line_num,
                 line_no, hunk_file, hunk_read, sfVars, pubVars, aggVars, scVars>>

\* parse_pr_folder of a folder without pr.diff: files stays [].
ParsePrFolderNoDiff ==
  /\ parse_pc = "loop"
  /\ line_no = 0
  /\ \E fc \in FilesChangedPool :
       /\ files_changed' = fc
       /\ parsed' = ParsedDiff(<<>>, stat_total(fc.entries, "additions"),
                               stat_total(fc.entries, "deletions"))
  /\ parse_pc' = "returned"
  /\ UNCHANGED <<files, file_heap, hunk_heap, current_file, current_hunk, new_line_num,
                 line_no, hunk_file, hunk_read, sfVars, pubVars, aggVars, scVars>>

NextParse ==
  \/ ParseFileHeader
  \/ ParseFileMarker
  \/ ParseHunkHeader
  \/ ParseBodyLine
  \/ SkipLine
  \/ FinishParse
  \/ ParsePrFolder
  \/ ParsePrFolderNoDiff

SpecParse == InitParse /\ [][NextParse]_vars

\* The body lines of a hunk, in the order they were read.
BodyLines(h) == Tail(h.content)
\* A line that moves the counter: an added line, or a line that is neither
\* added nor removed nor a "\" marker.
Advances(line) ==
  \/ is_added_line(line)
  \/ ~is_removed_line(line) /\ ~startswith(line, <<"\\">>)
\* The counter's value when body line k of hunk h is read.
CounterAt(h, k) ==
  h.new_start + Cardinality({j \in 1..(k - 1) : Advances(BodyLines(h)[j])})
AddedUpTo(h, k) == Cardinality({j \in 1..k : is_added_line(BodyLines(h)[j])})
RemovedUpTo(h, k) == Cardinality({j \in 1..k : is_removed_line(BodyLines(h)[j])})

\* C10: within a hunk an added line is recorded with the counter's value and
\* advances it, a context line advances it, and a removed line is recorded
\* with the counter's value without advancing it; so a removed line and the
\* added line right after it carry the same new-line number.
C10_LineNumbering ==
  \A r \in 1..Len(hunk_heap) :
    LET h == hunk_heap[r]
        body == BodyLines(h)
    IN  /\ Len(h.added_lines) = AddedUpTo(h, Len(body))
        /\ Len(h.removed_lines) = RemovedUpTo(h, Len(body))
        /\ \A k \in 1..Len(body) :
             /\ is_added_line(body[k]) =>
                  h.added_lines[AddedUpTo(h, k)] = <<CounterAt(h, k), Tail(body[k])>>
             /\ is_removed_line(body[k]) =>
                  h.removed_lines[RemovedUpTo(h, k)] = <<CounterAt(h, k), Tail(body[k])>>
             /\ (k < Len(body) /\ is_removed_line(body[k]) /\ is_added_line(body[k + 1])) =>
                  h.removed_lines[RemovedUpTo(h, k)][1] = h.added_lines[AddedUpTo(h, k + 1)][1]
        /\ r = current_hunk => new_line_num = CounterAt(h, Len(body) + 1)

\* A hunk in which a context line, then a removed line, then an added line
\* were read: the removed and the added line both carry new_start + 1.
C10_Witness ==
  \E r \in 1..Len(hunk_heap) :
    /\ BodyLines(hunk_heap[r]) = <<CtxZ, DelY, AddX>>
    /\ hunk_heap[r].removed_lines = <<<<hunk_heap[r].new_start + 1, <<"y">>>>>>
    /\ hunk_heap[r].added_lines = <<<<hunk_heap[r].new_start + 1, <<"x">>>>>>
    /\ new_line_num = hunk_heap[r].new_start + 2

RECURSIVE SumSeq(_)
SumSeq(ns) == IF ns = <<>> THEN 0 ELSE Head(ns) + SumSeq(Tail(ns))
\* Over the entries of a file's hunks list: the recorded added / removed lines.
AddedCounts(f) ==
  [k \in DOMAIN file_heap[f].hunks |-> Len(hunk_heap[file_heap[f].hunks[k]].added_lines)]
RemovedCounts(f) ==
  [k \in DOMAIN file_heap[f].hunks |-> Len(hunk_heap[file_heap[f].hunks[k]].removed_lines)]
ParseReturned == parse_pc \in {"done", "returned"}

\* C11: after parse_unified_diff, each FileDiff's additions and deletions equal
\* the sums, over the entries of its hunks list, of the added and removed lines
\* recorded in each hunk, malformed hunk headers included.
C11_FileCountsAreHunkSums ==
  ParseReturned =>
    \A f \in DOMAIN file_heap :
      /\ file_heap[f].additions = SumSeq(AddedCounts(f))
      /\ file_heap[f].deletions = SumSeq(RemovedCounts(f))

\* The per-hunk counts of the parsed diff, over every file of the result.
DiffAdditions == SumSeq([k \in DOMAIN parsed.files |-> SumSeq(AddedCounts(parsed.files[k]))])
DiffDeletions == SumSeq([k \in DOMAIN parsed.files |-> SumSeq(RemovedCounts(parsed.files[k]))])

\* C12: the totals parse_pr_folder returns are the sums of the per-hunk added
\* and removed line counts of the parsed diff, unless external per-file
\* statistics are present and non-zero, which then take precedence; with no
\* external statistics the totals are the counts found in the diff.
C12_TotalsAreDiffCounts ==
  parse_pc = "returned" =>
    LET ext_add == stat_total(files_changed.entries, "additions")
        ext_del == stat_total(files_changed.entries, "deletions")
    IN  /\ parsed.total_additions =
             IF files_changed.present /\ ext_add # 0 THEN ext_add ELSE DiffAdditions
        /\ parsed.total_deletions =
             IF files_changed.present /\ ext_del # 0 THEN ext_del ELSE DiffDeletions

\* The hunks opened while file f was current, in the order of their headers.
RECURSIVE SectionHunks(_, _)
SectionHunks(f, n) ==
  IF n = 0 THEN <<>>
  ELSE SectionHunks(f, n - 1) \o (IF hunk_file[n] = f THEN <<n>> ELSE <<>>)

\* C13: a line starting with "@@" that is no hunk header is skipped and the
\* parse goes on; a file's hunk list holds exactly one entry for each well-formed
\* hunk header of the file's section, and no hunk is listed twice.
C13_MalformedHeaderSkipped ==
  ParseReturned =>
    \A f \in DOMAIN file_heap :
      /\ file_heap[f].hunks = SectionHunks(f, Len(hunk_heap))
      /\ \A j, k \in DOMAIN file_heap[f].hunks :
           file_heap[f].hunks[j] = file_heap[f].hunks[k] => j = k

\* str(n) for n >= 0
RECURSIVE decimal(_)
decimal(n) ==
  IF n < 10 THEN <<DecimalStr[n + 1]>>
  ELSE decimal(n \div 10) \o <<DecimalStr[(n % 10) + 1]>>
Omitted == -1
\* The header `@@ -a[,b] +c[,d] @@`; a count of Omitted is left out.
header_text(a, b, c, d) ==
  <<"@","@"," ","-">> \o decimal(a) \o (IF b = Omitted THEN <<>> ELSE <<",">> \o decimal(b))
    \o <<" ","+">> \o decimal(c) \o (IF d = Omitted THEN <<>> ELSE <<",">> \o decimal(d))
    \o <<" ","@","@">>
count_or_one(n) == IF n = Omitted THEN 1 ELSE n
\* The header forms read by the parser: <<a, b, c, d>>.
HeaderCases ==
  { <<10, 3, 10, 5>>, <<1, Omitted, 2, Omitted>>, <<0, 0, 1, 12>>,
    <<7, 2, 9, Omitted>>, <<3, Omitted, 4, 2>> }

\* C14: a header `@@ -a[,b] +c[,d] @@` opens a hunk with old_start = a,
\* old_count = b, new_start = c, new_count = d, an omitted count being 1, and
\* seeds the new-line counter at c; `@@ -10,3 +10,5 @@` gives 10, 3, 10, 5.
C14_HeaderFields ==
  /\ Hunk10 = header_text(10, 3, 10, 5)
  /\ \A r \in DOMAIN hunk_heap : \A q \in HeaderCases :
       startswith(hunk_heap[r].content[1], header_text(q[1], q[2], q[3], q[4])) =>
         /\ hunk_heap[r].old_start = q[1]
         /\ hunk_heap[r].old_count = count_or_one(q[2])
         /\ hunk_heap[r].new_start = q[3]
         /\ hunk_heap[r].new_count = count_or_one(q[4])
         /\ (r = current_hunk /\ Len(hunk_heap[r].content) = 1) => new_line_num = q[3]

\* Hunks were opened from a header with both counts, from one with a zero
\* count, and from one with an omitted count, the last just read.
C14_Witness ==
  /\ \E r \in DOMAIN hunk_heap :
       /\ hunk_heap[r].content[1] = Hunk10
       /\ hunk_heap[r].old_count = 3 /\ hunk_heap[r].new_count = 5
  /\ \E r \in DOMAIN hunk_heap :
       /\ hunk_heap[r].content[1] = Hunk0
       /\ hunk_heap[r].old_count = 0 /\ hunk_heap[r].new_count = 12
  /\ current_hunk # None
  /\ hunk_heap[current_hunk].content = <<Hunk3>>
  /\ hunk_heap[current_hunk].old_count = 1
  /\ new_line_num = 4

\* The identity of a finding: file, reported line, first 30 characters of the title.
IdentityKey(issue) ==
  LET title == dict_get(issue, "title", <<>>)
  IN  <<dict_get(issue, "file", <<>>), dict_get(issue, "line", 0),
        [k \in 1..(IF Len(title) < 30 THEN Len(title) ELSE 30) |-> title[k]]>>
\* The first occurrence of each identity, in the order of the list.
RECURSIVE FirstOccurrences(_, _)
FirstOccurrences(xs, n) ==
  IF n = 0 THEN <<>>
  ELSE FirstOccurrences(xs, n - 1)
         \o (IF \E j \in 1..(n - 1) : IdentityKey(xs[j]) = IdentityKey(xs[n])
               THEN <<>> ELSE <<xs[n]>>)
Collected == collect_issues(results)

\* C15: _deduplicate_issues returns exactly the first occurrence of each identity
\* key (file, line, first 30 characters of the title), in input order; so a list
\* concatenated with itself deduplicates to the same result as the list.
C15_DedupFirstOccurrence ==
  agg_pc = "done" =>
    /\ all_issues = FirstOccurrences(Collected, Len(Collected))
    /\ _deduplicate_issues(Collected \o Collected) = all_issues
    /\ _deduplicate_issues(all_issues) = all_issues

\* Two findings whose titles differ only after the 30th character were merged
\* into the first.
C15_Witness ==
  /\ agg_pc = "done"
  /\ Len(Collected) = 2 /\ Len(all_issues) = 1
  /\ Collected[1].title = LongTitle("a", "a") /\ Collected[2].title = LongTitle("a", "b")
  /\ all_issues[1] = Collected[1]

-----------------------------------------------------------------------------
(* agents/issue_scoring_filter.py: IssueScoringFilter.score_and_filter and  *)
(* _score_batch, with an oracle (self.llm) configured.  A score is written  *)
(* in hundredths: 0.5 is 50.  The oracle's answer to a batch is any list of *)
(* scores, or an exception.                                                 *)

\* IssueScore(issue_id=..., relevance_score=..., severity_score=..., confidence_score=...)
IssueScore(issue_id, relevance_score, severity_score, confidence_score, reasoning) ==
  [issue_id |-> issue_id, relevance_score |-> relevance_score,
   severity_score |-> severity_score, confidence_score |-> confidence_score,
   reasoning |-> reasoning]

\* The score _score_batch gives an issue when the oracle call raised.
neutral_score(issue) == IssueScore(issue.id, 50, 50, 30, "Scoring failed")

\* An oracle outcome: an exception, or result.scores.
OracleFailed == [failed |-> TRUE, scores |-> <<>>]
OracleScores(scores) == [failed |-> FALSE, scores |-> scores]

\* _score_batch(batch, ...) under the oracle outcome
_score_batch(batch, outcome) ==
  IF outcome.failed THEN [k \in DOMAIN batch |-> neutral_score(batch[k])]
  ELSE outcome.scores

\* issues[i:i + n]
slice(xs, i, n) == SubSeq(xs, i + 1, IF i + n < Len(xs) THEN i + n ELSE Len(xs))

\* score_map = {s.issue_id: s for s in all_scores}; score_map.get(id): the last
\* score of the list with that id.  NoScore stands for None.
NoScore == [issue_id |-> <<>>, relevance_score |-> 0, severity_score |-> 0,
            confidence_score |-> 0, reasoning |-> "none"]
score_map_get(scores, id) ==
  LET at == {k \in DOMAIN scores : scores[k].issue_id = id}
  IN  IF at = {} THEN NoScore
      ELSE scores[CHOOSE k \in at : \A j \in at : j <= k]

\* A variant of passes_thresholds with strict comparisons.
passes_thresholds_Strict(score, config) ==
  /\ score.relevance_score > config.relevance_threshold
  /\ score.severity_score > config.severity_threshold
  /\ (config.include_low_confidence \/ score.confidence_score > config.min_confidence)

\* passes_relevance and passes_severity and passes_confidence
passes_thresholds(score, config) ==
  /\ score.relevance_score >= config.relevance_threshold
  /\ score.severity_score >= config.severity_threshold
  /\ (config.include_low_confidence \/ score.confidence_score >= config.min_confidence)

\* Whether the filter loop appends the issue.
keeps_issue(issue, score, config) ==
  IF score = NoScore THEN issue.severity \in {"critical", "high"}
  ELSE passes_thresholds(score, config)

\* The issue as the loop leaves it: a kept, scored issue carries its scores.
issue_after(issue, score, config) ==
  IF score # NoScore /\ passes_thresholds(score, config)
    THEN [issue EXCEPT !.relevance_score = score.relevance_score,
                       !.severity_score = score.severity_score,
                       !.score_reasoning = score.reasoning]
    ELSE issue

\* The filter loop: the returned list.
RECURSIVE filter_loop(_, _, _)
filter_loop(issues, scores, config) ==
  IF issues = <<>> THEN <<>>
  ELSE LET score == score_map_get(scores, Head(issues).id)
       IN  (IF keeps_issue(Head(issues), score, config)
              THEN <<issue_after(Head(issues), score, config)>> ELSE <<>>)
             \o filter_loop(Tail(issues), scores, config)

-----------------------------------------------------------------------------
(* Specification of the score filter: up to MaxScored findings with         *)
(* distinct ids, batches of BatchSize, one oracle outcome per batch.        *)

MaxScored == 3
BatchSize == 2

Unscored == -1
ScoredBug(id, severity) ==
  [id |-> id, severity |-> severity, relevance_score |-> Unscored,
   severity_score |-> Unscored, score_reasoning |-> "none"]
BugIds == [k \in 1..(MaxScored + 1) |-> generated_id(k - 1)]
UnknownId == <<"zz">>
ScoredSeverities == {"critical", "high", "medium"}
RECURSIVE BugLists(_)
BugLists(n) ==
  IF n = 0 THEN {<<>>}
  ELSE BugLists(n - 1)
         \cup {Append(bs, ScoredBug(BugIds[n], sev)) :
                 bs \in {x \in BugLists(n - 1) : Len(x) = n - 1}, sev \in ScoredSeverities}

\* ScoringConfig(...)
ScoringConfig(relevance, severity, low_confidence, confidence) ==
  [relevance_threshold |-> relevance, severity_threshold |-> severity,
   max_issues_per_batch |-> BatchSize, include_low_confidence |-> low_confidence,
   min_confidence |-> confidence]
ScoringConfigPool ==
  {ScoringConfig(r, v, l, c) :
     r \in {50, 60}, v \in {40, 60}, l \in BOOLEAN, c \in {30, 40}}

\* What the oracle may answer: scores for the first finding, for the first
\* finding of the second batch, and for an id no finding has.
ScorePool ==
  { IssueScore(BugIds[1], 90, 90, 90, "ok"), IssueScore(BugIds[1], 50, 50, 30, "ok"),
    IssueScore(BugIds[BatchSize + 1], 90, 90, 90, "ok"),
    IssueScore(UnknownId, 90, 90, 90, "ok") }
OracleOutcomes ==
  {OracleFailed} \cup {OracleScores(ss) : ss \in SeqsUpTo(ScorePool, 2)}

InitScore ==
  /\ sc_issues \in BugLists(MaxScored)
  /\ sc_config \in ScoringConfigPool
  /\ sc_i = 0
  /\ all_scores = <<>>
  /\ batch_log = <<>>
  /\ sc_filtered = <<>>
  /\ sc_pc = "start"
  /\ SfIdle /\ PubIdle /\ AggIdle /\ ParseIdle

\* if not issues: return []
ReturnEmpty ==
  /\ sc_pc = "start"
  /\ sc_issues = <<>>
  /\ sc_filtered' = <<>>
  /\ sc_pc' = "done"
  /\ UNCHANGED <<sc_issues, sc_config, sc_i, all_scores, batch_log,
                 sfVars, pubVars, aggVars, parseVars>>

\* One round of the batch loop: the oracle answers, or raises.
ScoreBatch ==
  /\ sc_pc \in {"start", "scoring"}
  /\ sc_i < Len(sc_issues)
  /\ \E outcome \in OracleOutcomes :
       /\ all_scores' = all_scores \o
            _score_batch(slice(sc_issues, sc_i, sc_config.max_issues_per_batch), outcome)
       /\ batch_log' = Append(batch_log, outcome)
  /\ sc_i' = sc_i + sc_config.max_issues_per_batch
  /\ sc_pc' = "scoring"
  /\ UNCHANGED <<sc_issues, sc_config, sc_filtered, sfVars, pubVars, aggVars, parseVars>>

\* After the batch loop: the score map, and the filter loop.
FilterByThresholds ==
  /\ sc_pc = "scoring"
  /\ sc_i >= Len(sc_issues)
  /\ sc_filtered' = filter_loop(sc_issues, all_scores, sc_config)
  /\ sc_issues' = [k \in DOMAIN sc_issues |->
                     issue_after(sc_issues[k], score_map_get(all_scores, sc_issues[k].id),
                                 sc_config)]
  /\ sc_pc' = "done"
  /\ UNCHANGED <<sc_config, sc_i, all_scores, batch_log, sfVars, pubVars, aggVars, parseVars>>

NextScore ==
  \/ ReturnEmpty
  \/ ScoreBatch
  \/ FilterByThresholds

SpecScore == InitScore /\ [][NextScore]_vars

\* The finding with this id is in the returned list.
KeptId(id) == \E k \in DOMAIN sc_filtered : sc_filtered[k].id = id
\* The ids of a list, in order.
IdsOf(bs) == [k \in DOMAIN bs |-> bs[k].id]
\* The score the filter has for a finding: the last one given for its id.
HasScore(id) == \E k \in DOMAIN all_scores : all_scores[k].issue_id = id
TheScore(id) ==
  all_scores[CHOOSE k \in DOMAIN all_scores :
               /\ all_scores[k].issue_id = id
               /\ \A j \in DOMAIN all_scores : all_scores[j].issue_id = id => j <= k]
PassesConfig(score) ==
  /\ score.relevance_score >= sc_config.relevance_threshold
  /\ score.severity_score >= sc_config.severity_threshold
  /\ (score.confidence_score >= sc_config.min_confidence \/ sc_config.include_low_confidence)
RECURSIVE Subsequence(_, _)
Subsequence(xs, ys) ==
  \/ xs = <<>>
  \/ /\ ys # <<>>
     /\ \/ Head(xs) = Head(ys) /\ Subsequence(Tail(xs), Tail(ys))
        \/ Subsequence(xs, Tail(ys))

\* C16: a finding that has a score is kept iff relevance >= relevance_threshold,
\* severity_score >= severity_threshold and (confidence >= min_confidence or
\* include_low_confidence); a finding without a score is kept iff its severity
\* is critical or high; the kept findings are returned in input order.
C16_ThresholdRule ==
  sc_pc = "done" =>
    /\ \A k \in DOMAIN sc_issues :
         LET issue == sc_issues[k]
         IN  KeptId(issue.id) <=>
               IF HasScore(issue.id) THEN PassesConfig(TheScore(issue.id))
               ELSE issue.severity \in {"critical", "high"}
    /\ Subsequence(IdsOf(sc_filtered), IdsOf(sc_issues))
    /\ \A j, k \in DOMAIN sc_filtered : sc_filtered[j].id = sc_filtered[k].id => j = k

\* A scored finding of medium severity was kept at the thresholds' exact values,
\* and an unscored one of medium severity was dropped after an unscored
\* critical one was kept.
C16_Witness ==
  /\ sc_pc = "done"
  /\ Len(sc_issues) = 3
  /\ sc_issues[1].severity = "medium" /\ HasScore(sc_issues[1].id)
  /\ TheScore(sc_issues[1].id).relevance_score = sc_config.relevance_threshold
  /\ TheScore(sc_issues[1].id).confidence_score = sc_config.min_confidence
  /\ ~sc_config.include_low_confidence
  /\ sc_issues[2].severity = "critical" /\ ~HasScore(sc_issues[2].id)
  /\ sc_issues[3].severity = "medium" /\ ~HasScore(sc_issues[3].id)
  /\ IdsOf(sc_filtered) = <<sc_issues[1].id, sc_issues[2].id>>

\* The batch (1-based) a finding at position k belongs to, and its members.
BatchOf(k) == ((k - 1) \div sc_config.max_issues_per_batch) + 1
NeutralPasses ==
  /\ 50 >= sc_config.relevance_threshold
  /\ 50 >= sc_config.severity_threshold
  /\ (30 >= sc_config.min_confidence \/ sc_config.include_low_confidence)

\* C17: when the oracle call fails for a batch, every finding of the batch gets
\* relevance 0.5, severity_score 0.5, confidence 0.3, the remaining batches are
\* still scored, and a finding of the failed batch is kept iff its severity is
\* high or critical or the neutral scores pass the configured thresholds.
C17_NeutralFallback ==
  sc_pc = "done" =>
    /\ sc_issues # <<>> => Len(batch_log) = BatchOf(Len(sc_issues))
    /\ \A k \in DOMAIN sc_issues :
         batch_log[BatchOf(k)].failed =>
           /\ \E s \in DOMAIN all_scores :
                /\ all_scores[s].issue_id = sc_issues[k].id
                /\ all_scores[s].relevance_score = 50
                /\ all_scores[s].severity_score = 50
                /\ all_scores[s].confidence_score = 30
           /\ KeptId(sc_issues[k].id) <=>
                (sc_issues[k].severity \in {"critical", "high"} \/ NeutralPasses)

\* The score a finding's own batch attributed to its id: the last score with
\* that id in the batch's answer, the neutral score when the batch failed.
OwnScores(k) ==
  _score_batch(slice(sc_issues, (BatchOf(k) - 1) * sc_config.max_issues_per_batch,
                     sc_config.max_issues_per_batch),
               batch_log[BatchOf(k)])
OwnHasScore(k) == \E s \in DOMAIN OwnScores(k) : OwnScores(k)[s].issue_id = sc_issues[k].id
OwnScore(k) ==
  OwnScores(k)[CHOOSE s \in DOMAIN OwnScores(k) :
                 /\ OwnScores(k)[s].issue_id = sc_issues[k].id
                 /\ \A j \in DOMAIN OwnScores(k) :
                      OwnScores(k)[j].issue_id = sc_issues[k].id => j <= s]

\* C18: the decision for a finding depends only on the score its own batch
\* attributed to its id, whatever the other batches answered, a failed batch
\* and a score for a finding of another batch included; so it is the same for
\* every order in which the batches' answers arrive.
C18_DecisionByOwnBatch ==
  sc_pc = "done" =>
    \A k \in DOMAIN sc_issues :
      KeptId(sc_issues[k].id) <=>
        IF OwnHasScore(k) THEN PassesConfig(OwnScore(k))
        ELSE sc_issues[k].severity \in {"critical", "high"}

-----------------------------------------------------------------------------
(* agents/orchestrator.py: ReviewOrchestrator.run_review, phase 3 and 4.    *)
(* The four detector coroutines are gathered with return_exceptions=True;   *)
(* each completes, by returning an AgentResult or by raising, in any order. *)

Running == [state |-> "running", result |-> AgentResult(FALSE, <<>>)]
Returned(result) == [state |-> "returned", result |-> result]
Raised == [state |-> "raised", result |-> AgentResult(FALSE, <<>>)]

\* self._error_result(name, error)
_error_result == AgentResult(FALSE, <<>>)

\* A variant of gathered in which one exception replaces every result.
gathered_Propagate(tasks) ==
  [d \in DOMAIN tasks |->
     IF \E e \in DOMAIN tasks : tasks[e].state = "raised" THEN _error_result
     ELSE tasks[d].result]

\* The four results run_review hands to aggregate: a detector's result, or
\* the error result in place of its exception.
gathered(tasks) ==
  [d \in DOMAIN tasks |->
     IF tasks[d].state = "raised" THEN _error_result ELSE tasks[d].result]

\* What a detector may return.
DetectorIssueLists ==
  { <<>>,
    <<[file |-> FileA, line |-> 2, title |-> Title1, severity |-> SevCritical,
       type |-> "logic_error"]>>,
    <<[file |-> FileA, line |-> 50, title |-> Title2, severity |-> SevLow,
       type |-> "memory_issue"],
      [file |-> FileB, line |-> 2, title |-> Title3, severity |-> SevHigh]>> }
DetectorResults == {AgentResult(ok, issues) : ok \in BOOLEAN, issues \in DetectorIssueLists}

InitReview ==
  /\ detectors = <<Running, Running, Running, Running>>
  /\ results = <<>>
  /\ include_style = FALSE
  /\ parsed_diff = ScenarioDiff
  /\ all_issues = <<>>
  /\ bugs = <<>>
  /\ line_comments = <<>>
  /\ off_diff_bugs = <<>>
  /\ appendix = <<>>
  /\ agg_pc = "waiting"
  /\ SfIdle /\ PubIdle /\ ParseIdle /\ ScIdle

\* A detector's analyze returns.
DetectorReturns ==
  /\ agg_pc = "waiting"
  /\ \E d \in DOMAIN detectors : \E result \in DetectorResults :
       /\ detectors[d].state = "running"
       /\ detectors' = [detectors EXCEPT ![d] = Returned(result)]
  /\ UNCHANGED <<results, include_style, parsed_diff, all_issues, bugs, line_comments,
                 off_diff_bugs, appendix, agg_pc, sfVars, pubVars, parseVars, scVars>>

\* A detector's analyze raises.
DetectorRaises ==
  /\ agg_pc = "waiting"
  /\ \E d \in DOMAIN detectors :
       /\ detectors[d].state = "running"
       /\ detectors' = [detectors EXCEPT ![d] = Raised]
  /\ UNCHANGED <<results, include_style, parsed_diff, all_issues, bugs, line_comments,
                 off_diff_bugs, appendix, agg_pc, sfVars, pubVars, parseVars, scVars>>

\* asyncio.gather returns once every task is done; aggregate is called.
Gather ==
  /\ agg_pc = "waiting"
  /\ \A d \in DOMAIN detectors : detectors[d].state # "running"
  /\ results' = gathered(detectors)
  /\ agg_pc' = "start"
  /\ UNCHANGED <<include_style, parsed_diff, all_issues, bugs, line_comments,
                 off_diff_bugs, appendix, detectors, sfVars, pubVars, parseVars, scVars>>

NextReview ==
  \/ DetectorReturns
  \/ DetectorRaises
  \/ Gather
  \/ Aggregate

SpecReview == InitReview /\ [][NextReview]_vars

\* The findings of the detectors that returned a successful result, in the
\* order structure, memory, logic, security.
RECURSIVE SuccessfulFindings(_, _)
SuccessfulFindings(tasks, n) ==
  IF n = 0 THEN <<>>
  ELSE SuccessfulFindings(tasks, n - 1)
         \o (IF tasks[n].state = "returned" /\ tasks[n].result.success
               THEN tasks[n].result.issues ELSE <<>>)

\* C19: aggregation starts only after each of the four detectors has returned
\* or raised; a detector's exception becomes a failed result with no findings
\* and leaves the other detectors' results as they returned them; all findings
\* of the successful detectors are collected.
C19_DetectorFailureIsolated ==
  /\ agg_pc \in {"start", "done", "raised"} =>
       /\ \A d \in DOMAIN detectors : detectors[d].state # "running"
       /\ \A d \in DOMAIN detectors :
            IF detectors[d].state = "raised"
              THEN ~results[d].success /\ results[d].issues = <<>>
              ELSE results[d] = detectors[d].result
  /\ agg_pc = "done" =>
       /\ collect_issues(results) = SuccessfulFindings(detectors, Len(detectors))
       /\ \A k \in DOMAIN SuccessfulFindings(detectors, Len(detectors)) :
            \E j \in DOMAIN all_issues :
              IdentityKey(all_issues[j]) =
                IdentityKey(SuccessfulFindings(detectors, Len(detectors))[k])

\* The first detector raised before the last one returned two findings; both
\* were collected.
C19_Witness ==
  /\ agg_pc = "done"
  /\ detectors[1].state = "raised"
  /\ detectors[2].state = "returned" /\ ~detectors[2].result.success
  /\ detectors[4].state = "returned" /\ detectors[4].result.success
  /\ Len(detectors[4].result.issues) = 2
  /\ Len(all_issues) >= 2

\* C20: aggregate never raises: for any detector outcomes, findings whose file,
\* line, title or severity is missing or null included, it returns a report.
C20_AggregateNeverRaises == agg_pc # "raised"

\* The bugs _convert_to_bugs built from the deduplicated findings, before the sort.
Converted == _convert_to_bugs(all_issues, include_style)
\* The position of bug b in the list bs (0 when it is not in it).
PositionIn(bs, b) ==
  IF \E k \in DOMAIN bs : bs[k] = b THEN CHOOSE k \in DOMAIN bs : bs[k] = b ELSE 0

\* C21: the emitted findings are the converted findings ordered by severity
\* priority critical < high < medium < low, and two findings of equal severity
\* keep the relative order they had before the sort.
C21_StableSeveritySort ==
  agg_pc = "done" =>
    /\ Len(bugs) = Len(Converted)
    /\ \A k \in DOMAIN Converted : PositionIn(bugs, Converted[k]) # 0
    /\ \A i \in DOMAIN bugs : \A j \in DOMAIN bugs :
         i < j =>
           /\ severity_priority(bugs[i].severity) <= severity_priority(bugs[j].severity)
           /\ bugs[i].severity = bugs[j].severity =>
                PositionIn(Converted, bugs[i]) < PositionIn(Converted, bugs[j])

\* Two findings of equal severity were emitted, in the order of their detection.
C21_Witness ==
  /\ agg_pc = "done"
  /\ Len(bugs) = 2
  /\ bugs[1].severity = "low" /\ bugs[2].severity = "low"
  /\ bugs[1].type = "memory_issue" /\ bugs[2].type = "logic_error"

-----------------------------------------------------------------------------
(* agents/aggregator.py: _add_off_diff_issues_to_summary on the lists of    *)
(* off-diff bugs aggregate hands it: sorted by severity, outside the diff.  *)

MaxOffDiff == 6

OffDiffSeverities == {SevCritical, SevHigh, SevMedium, SevLow}
\* A finding per entry of severities, each at its own line below the diff.
off_diff_issues(severities) ==
  [k \in DOMAIN severities |->
     [file |-> FileA, line |-> 50 + k, title |-> Title1, severity |-> severities[k],
      type |-> "logic_error"]]
OffDiffLists ==
  UNION { {sorted_by_severity(_convert_to_bugs(off_diff_issues(severities), FALSE)) :
             severities \in [1..n -> OffDiffSeverities]} : n \in 0..MaxOffDiff }

InitAppendix ==
  /\ \E off \in OffDiffLists : bugs = off /\ off_diff_bugs = off
  /\ results = <<>>
  /\ include_style = FALSE
  /\ parsed_diff = ScenarioDiff
  /\ all_issues = <<>>
  /\ line_comments = <<>>
  /\ appendix = <<>>
  /\ agg_pc = "appendix"
  /\ detectors = <<>>
  /\ SfIdle /\ PubIdle /\ ParseIdle /\ ScIdle

AddOffDiffIssuesToSummary ==
  /\ agg_pc = "appendix"
  /\ appendix' = _add_off_diff_issues_to_summary(off_diff_bugs)
  /\ agg_pc' = "appended"
  /\ UNCHANGED <<results, include_style, parsed_diff, all_issues, bugs, line_comments,
                 off_diff_bugs, detectors, sfVars, pubVars, parseVars, scVars>>

NextAppendix == AddOffDiffIssuesToSummary

SpecAppendix == InitAppendix /\ [][NextAppendix]_vars

\* The positions of the appendix lines of a kind.
LinesOfKind(kind) == {i \in DOMAIN appendix : appendix[i].kind = kind}
\* The last line of the severity group that starts at line g.
GroupEnd(g) ==
  IF \E j \in LinesOfKind("group") : j > g
    THEN (CHOOSE j \in LinesOfKind("group") :
            j > g /\ \A m \in LinesOfKind("group") : m > g => j <= m) - 1
    ELSE Len(appendix)
SeverityRank(name) ==
  CASE name = "CRITICAL" -> 1 [] name = "HIGH" -> 2 [] name = "MEDIUM" -> 3
    [] name = "LOW" -> 4 [] OTHER -> 0
SeverityNames == <<"critical", "high", "medium", "low">>
\* The number of unresolved bugs of the severity with rank r.
UnresolvedOf(r) ==
  Cardinality({k \in DOMAIN off_diff_bugs : off_diff_bugs[k].severity = SeverityNames[r]})

\* C22: the appendix starts with a header whose count is the number of
\* unresolved findings; its groups come in the order critical, high, medium,
\* low, one for each severity that has unresolved findings; a group of n
\* findings shows min(n, 5) of them, and exactly when n > 5 one marker that
\* says n - 5 more.
C22_AppendixGroupsCapped ==
  agg_pc = "appended" /\ off_diff_bugs # <<>> =>
    /\ LinesOfKind("header") = {1} /\ appendix[1].count = Len(off_diff_bugs)
    /\ \A g \in LinesOfKind("group") : \A h \in LinesOfKind("group") :
         g < h => SeverityRank(appendix[g].severity) < SeverityRank(appendix[h].severity)
    /\ \A r \in 1..4 :
         (UnresolvedOf(r) > 0) <=>
           \E g \in LinesOfKind("group") : SeverityRank(appendix[g].severity) = r
    /\ \A g \in LinesOfKind("group") :
         LET n == UnresolvedOf(SeverityRank(appendix[g].severity))
             items == {i \in LinesOfKind("item") : g < i /\ i <= GroupEnd(g)}
             more == {i \in LinesOfKind("more") : g < i /\ i <= GroupEnd(g)}
         IN  /\ appendix[g].count = n
             /\ Cardinality(items) = (IF n < 5 THEN n ELSE 5)
             /\ IF n > 5
                  THEN /\ Cardinality(more) = 1
                       /\ \A i \in more : appendix[i].count = n - 5 /\ i = GroupEnd(g)
                  ELSE more = {}

\* Six high findings: the group shows five of them and a marker for one more.
C22_Witness ==
  /\ agg_pc = "appended"
  /\ UnresolvedOf(2) = 6
  /\ Len(appendix) = 8
  /\ appendix[2].kind = "group" /\ appendix[2].count = 6
  /\ appendix[8].kind = "more" /\ appendix[8].count = 1

\* C23: static classification leaves every field of every finding it is given
\* unchanged: the findings of the input list are after the call what they were
\* before it.
C23_NoInPlaceMutation == [][sf_pc = "start" => sf_issues' = sf_issues]_vars

\* The ignore-list patterns of the finding's language that its rule starts with.
IgnoreMatches(issue) ==
  {pattern \in TableIgnoreRules(IGNORE_RULES_get(issue_language(issue))) :
     startswith(issue.rule, pattern)}

\* C24: a finding whose rule matches an ignore-list pattern of its language is
\* not in the list static classification returns, with include_style set or
\* not and whatever its severity.
C24_IgnoreListUnconditional ==
  sf_pc = "done" =>
    \A k \in DOMAIN sf_issues :
      IgnoreMatches(sf_issues[k]) # {} => ~InFiltered(sf_issues[k])

\* With include_style set, an error-severity finding whose rule extends the
\* Python ignore pattern E5 was dropped.
C24_Witness ==
  /\ sf_pc = "done"
  /\ sf_include_style
  /\ sf_issues[1].rule = <<"E","5","0","1">>
  /\ sf_issues[1].language = LangPython
  /\ sf_issues[1].severity = SevError
  /\ sf_filtered = <<>>

\* C28: for every supported language, a finding whose rule id is listed in that
\* language's core-rule table is in the returned list, with the category under
\* which the table lists the id.
C28_CoreRuleKeptWithCategory ==
  sf_pc = "done" =>
    \A k \in DOMAIN sf_issues :
      LET table == CORE_RULES_get(issue_language(sf_issues[k]))
      IN  \A c \in DOMAIN table : \A j \in DOMAIN table[c].rules :
            table[c].rules[j] = sf_issues[k].rule =>
              \E m \in DOMAIN sf_filtered :
                /\ SameFinding(sf_filtered[m], sf_issues[k])
                /\ sf_filtered[m].category = table[c].category

\* C25: a finding whose hunk reference matches no hunk of its file, but whose
\* line_start is a touched line of that file, still gets a comment anchored at
\* that line.
C25_FallsBackToLines ==
  (/\ pub_pc = "done"
   /\ issue_obj.meta.file_path \in DOMAIN _build_file_line_mapping(diff_ir)
   /\ issue_obj.meta.hunk_id # ""
   /\ \A k \in DOMAIN TheFileMap.hunks : TheFileMap.hunks[k].hunk_id # issue_obj.meta.hunk_id
   /\ LineStart # None
   /\ LineStart \in Touched)
    => \E k \in DOMAIN inline_comments :
         LineStart \in {inline_comments[k].line, inline_comments[k].start_line}

\* C26: every range anchor, from _resolve_review_line or from the hunk
\* reference path of _convert_issue_to_inline_comment, has start_line < line.
C26_RangeAnchorOrdered ==
  /\ (pub_pc = "resolved" /\ resolved.ok /\ resolved.ranged)
       => resolved.start_line < resolved.line
  /\ pub_pc = "done" =>
       \A k \in DOMAIN inline_comments :
         inline_comments[k].ranged =>
           inline_comments[k].start_line < inline_comments[k].line

\* In a hunk's body a line that begins with `+` is an added line and a line
\* that begins with `-` a removed line, whatever follows the sign.
BodyAdded(line) == startswith(line, <<"+">>)
BodyRemoved(line) == startswith(line, <<"-">>)
BodyUnchanged(line) ==
  ~BodyAdded(line) /\ ~BodyRemoved(line) /\ ~startswith(line, <<"\\">>)
\* new_start plus the added and unchanged lines before body line k of hunk r.
NewNumberAt(r, k) ==
  hunk_heap[r].new_start
    + Cardinality({j \in 1..(k - 1) :
                     BodyAdded(hunk_read[r][j]) \/ BodyUnchanged(hunk_read[r][j])})
\* The added / removed body lines of the hunks read while file f was current.
BodyCount(f, Sign(_)) ==
  Cardinality({<<r, k>> \in (DOMAIN hunk_read) \X (1..MaxDiffLines) :
                 /\ hunk_file[r] = f
                 /\ k \in DOMAIN hunk_read[r]
                 /\ Sign(hunk_read[r][k])})

\* C27: in every hunk each added body line is recorded with the number
\* new_start plus the added and unchanged body lines before it, also when its
\* text begins with `++ `; and every added or removed body line, also one whose
\* text begins with `-- `, is counted in its file's additions or deletions.
C27_BodyLinesNumberedAndCounted ==
  /\ \A r \in DOMAIN hunk_read : \A k \in DOMAIN hunk_read[r] :
       BodyAdded(hunk_read[r][k]) =>
         \E a \in DOMAIN hunk_heap[r].added_lines :
           hunk_heap[r].added_lines[a] = <<NewNumberAt(r, k), Tail(hunk_read[r][k])>>
  /\ \A f \in DOMAIN file_heap :
       /\ file_heap[f].additions = BodyCount(f, BodyAdded)
       /\ file_heap[f].deletions = BodyCount(f, BodyRemoved)

\* C29: the ids of the bugs _convert_to_bugs builds, which are the findings
\* handed to the score filter, are pairwise distinct, whether a detector
\* supplied the id or conversion generated it.
C29_IdsPairwiseDistinct ==
  agg_pc = "done" =>
    \A i \in DOMAIN Converted : \A j \in DOMAIN Converted :
      i # j => Converted[i].id # Converted[j].id

-----------------------------------------------------------------------------
(* publish/github_publisher.py: GitHubPublisher.publish_comprehensive_report *)
(* with a diff IR: the inline comments are extracted from the report's       *)
(* issues, restricted to the files of the PR, de-duplicated and capped.      *)

\* The characters of the strings the report's issues are made of.
Chars(str) ==
  CASE str = ""            -> <<>>
    [] str = "Logic"       -> <<"L","o","g","i","c">>
    [] str = "HIGH"        -> <<"H","I","G","H">>
    [] str = "LOW"         -> <<"L","O","W">>
    [] str = "logic"       -> <<"l","o","g","i","c">>
    [] str = "logic_error" -> <<"l","o","g","i","c","_","e","r","r","o","r">>
    [] str = "T1"          -> <<"T","1">>
    [] str = "T2"          -> <<"T","2">>
    [] str = "d1"          -> <<"d","1">>

\* "\n".join(lines)
RECURSIVE join(_)
join(lines) ==
  IF lines = <<>> THEN <<>>
  ELSE IF Len(lines) = 1 THEN lines[1]
  ELSE lines[1] \o <<"\n">> \o join(Tail(lines))

\* The comment body _convert_issue_to_inline_comment assembles, as text.
body_text(issue, issue_type) ==
  join(<<<<"*","*">> \o Chars(issue_type) \o <<" ","I","s","s","u","e"," ","-"," ">>
           \o Chars(upper_severity(issue.severity)) \o <<"*","*">>,
         <<>>>>
       \o (IF issue.category # "" THEN <<<<"*","*","C","a","t","e","g","o","r","y",":","*","*"," ">> \o Chars(issue.category)>>
           ELSE <<>>)
       \o <<<<"*","*">> \o Chars(issue.title) \o <<"*","*">>, <<>>>>
       \o (IF issue.description # ""
             THEN <<<<"*","*","D","e","s","c","r","i","p","t","i","o","n",":","*","*"," ">> \o Chars(issue.description), <<>>>>
             ELSE <<>>)
       \o (IF issue.trigger_condition # ""
             THEN <<<<"*","*","T","r","i","g","g","e","r",":","*","*"," ">> \o Chars(issue.trigger_condition), <<>>>>
             ELSE <<>>)
       \o (IF issue.suggestion # ""
             THEN <<<<"*","*","S","u","g","g","e","s","t","i","o","n",":","*","*"," ">> \o Chars(issue.suggestion), <<>>>>
             ELSE <<>>))

\* The comments of one issue, with the body as text.
issue_comments(issue, file_line_mapping, issue_type) ==
  LET comments == _convert_issue_to_inline_comment(issue, file_line_mapping, issue_type)
  IN  [k \in DOMAIN comments |->
         [comments[k] EXCEPT !.body = body_text(issue, issue_type)]]

\* _extract_inline_comments_from_issues for a report whose issues all belong
\* to logic_review.
RECURSIVE extract_loop(_, _)
extract_loop(issues, file_line_mapping) ==
  IF issues = <<>> THEN <<>>
  ELSE issue_comments(Head(issues), file_line_mapping, "Logic")
         \o extract_loop(Tail(issues), file_line_mapping)
_extract_inline_comments_from_issues(issues, ir) ==
  extract_loop(issues, _build_file_line_mapping(ir))

\* [c for c in inline_comments if c.get("path") in pr_files]
RECURSIVE in_pr_files(_, _)
in_pr_files(comments, pr_files) ==
  IF comments = <<>> THEN <<>>
  ELSE (IF Head(comments).path \in pr_files THEN <<Head(comments)>> ELSE <<>>)
         \o in_pr_files(Tail(comments), pr_files)

\* The number of body characters in the de-duplication key.
BodyKeyLen == 50
\* The most inline comments a review is given.
max_comments == 20

\* A variant of comment_key that takes the whole body.
comment_key_WholeBody(c) ==
  <<c.path, IF c.ranged THEN c.start_line ELSE None, c.line, c.body>>

\* (c["path"], c.get("start_line"), c.get("line"), c["body"][:50])
comment_key(c) ==
  <<c.path, IF c.ranged THEN c.start_line ELSE None, c.line, str_prefix(c.body, BodyKeyLen)>>

RECURSIVE dedupe_comments(_, _)
dedupe_comments(comments, seen) ==
  IF comments = <<>> THEN <<>>
  ELSE IF comment_key(Head(comments)) \in seen
       THEN dedupe_comments(Tail(comments), seen)
       ELSE <<Head(comments)>>
              \o dedupe_comments(Tail(comments), seen \cup {comment_key(Head(comments))})

-----------------------------------------------------------------------------
(* Specification of the publication: a diff IR of one file with two touched *)
(* lines, and up to MaxReportIssues issues located by line.                 *)

MaxReportIssues == 2

ReportDiffIr ==
  <<[file_path |-> <<"a.py">>,
     hunks |-> <<AddHunk("h1", 1), CtxHunk("h2", 2, 2)>>]>>
ReportIssuePool ==
  [meta : [file_path : {<<"a.py">>, <<"b.py">>}, hunk_id : {""}, line_start : {1, 2},
           line_end : {None}],
   severity : {"high", "low"}, title : {"T1", "T2"},
   category : {"", "logic", "logic_error"}, description : {"", "d1"},
   trigger_condition : {""}, suggestion : {""}]

InitReport ==
  /\ diff_ir = ReportDiffIr
  /\ rp_issues \in SeqsUpTo(ReportIssuePool, MaxReportIssues)
  /\ rp_pr_files \in {{<<"a.py">>}, {}}
  /\ rp_comments = <<>>
  /\ rp_pc = "start"
  /\ issue_obj = <<>> /\ resolved = <<>> /\ inline_comments = <<>> /\ pub_pc = "idle"
  /\ SfIdle /\ AggIdle /\ ParseIdle /\ ScIdle

PublishComprehensiveReport ==
  /\ rp_pc = "start"
  /\ LET extracted == _extract_inline_comments_from_issues(rp_issues, diff_ir)
         deduped == dedupe_comments(in_pr_files(extracted, rp_pr_files), {})
     IN  rp_comments' = SubSeq(deduped, 1, IF Len(deduped) > max_comments
                                             THEN max_comments ELSE Len(deduped))
  /\ rp_pc' = "done"
  /\ UNCHANGED <<diff_ir, issue_obj, resolved, inline_comments, pub_pc, rp_issues,
                 rp_pr_files, sfVars, aggVars, parseVars, scVars>>

NextReport == PublishComprehensiveReport

SpecReport == InitReport /\ [][NextReport]_vars

\* The comments of issue i of the report that are anchored in a file of the PR.
CommentsInPr(i) ==
  in_pr_files(issue_comments(rp_issues[i], _build_file_line_mapping(diff_ir), "Logic"),
              rp_pr_files)
SameAnchor(c, d) ==
  /\ c.path = d.path /\ c.ranged = d.ranged
  /\ c.line = d.line /\ c.start_line = d.start_line
\* The number of comments anchored in the PR, before de-duplication.
ResolvedInPr ==
  Len(in_pr_files(_extract_inline_comments_from_issues(rp_issues, diff_ir), rp_pr_files))

\* C30: when no more than 20 findings resolved to an anchor in a file of the
\* PR, each of them has among the published comments one at its anchor for a
\* finding of its title: de-duplication never removes the only comment of a
\* title at an anchor, even if another title shares anchor, severity and
\* category.
C30_DistinctTitlesPublished ==
  (rp_pc = "done" /\ ResolvedInPr <= max_comments) =>
    \A i \in DOMAIN rp_issues : \A n \in DOMAIN CommentsInPr(i) :
      \E k \in DOMAIN rp_comments : \E j \in DOMAIN rp_issues :
        /\ rp_issues[j].title = rp_issues[i].title
        /\ SameAnchor(rp_comments[k], CommentsInPr(i)[n])
        /\ \E m \in DOMAIN CommentsInPr(j) : CommentsInPr(j)[m] = rp_comments[k]

=============================================================================
